---- MODULE Spec2Model ----
(***************************************************************************)
(* A model of crypto/params.c: the OSSL_PARAM descriptor, the integer      *)
(* conversion engine (copy_integer and the four conversions built on it),  *)
(* the typed get/set accessors, and OSSL_PARAM_locate.                     *)
(*                                                                         *)
(* Integers wider than TLC's own are kept as sequences of bytes (0..255).  *)
(* A "number" is a byte sequence in little-endian order (index 1 is the    *)
(* least significant byte); memory holds numbers in native order, which    *)
(* is the reverse when IS_BIG_ENDIAN.                                      *)
(***************************************************************************)
EXTENDS Integers, Sequences, FiniteSets, TLC

VARIABLES
    IS_BIG_ENDIAN,  \* DECLARE_IS_ENDIAN: the byte order of the build
    params,         \* the OSSL_PARAM array (terminator entry included)
    mem,            \* the caller-owned buffers the descriptors' data refer to
    last            \* the last call: operation, arguments and what it returned

vars == <<IS_BIG_ENDIAN, params, mem, last>>

-----------------------------------------------------------------------------
(* Bounds of the model *)

\* largest buffer of a string descriptor; the values stored are up to one longer
MaxLen == 2
\* entries of the memory searched by OSSL_PARAM_locate, besides one that ends
\* the array
MaxParams == 3

-----------------------------------------------------------------------------
(* Bytes and numbers *)

Byte == 0..255

NULL == 0

RECURSIVE Rep(_, _)
\* n copies of byte b (memset)
Rep(b, n) == IF n = 0 THEN << >> ELSE <<b>> \o Rep(b, n - 1)

RECURSIVE Reverse(_)
Reverse(s) == IF s = << >> THEN << >> ELSE Reverse(Tail(s)) \o <<Head(s)>>

\* A number as it lies in memory, and back.
Native(n) == IF IS_BIG_ENDIAN THEN Reverse(n) ELSE n

RECURSIVE BitXor(_, _, _)
\* a ^ b on w-bit operands
BitXor(a, b, w) ==
    IF w = 0 THEN 0
    ELSE (((a % 2) + (b % 2)) % 2) + 2 * BitXor(a \div 2, b \div 2, w - 1)

RECURSIVE BitAnd(_, _, _)
\* a & b on w-bit operands
BitAnd(a, b, w) ==
    IF w = 0 THEN 0
    ELSE ((a % 2) * (b % 2)) + 2 * BitAnd(a \div 2, b \div 2, w - 1)

\* The most significant byte of a number, and whether its sign bit is set.
TopByte(n) == n[Len(n)]
SignBit(n) == TopByte(n) >= 128

RECURSIVE ULess(_, _)
\* a < b for unsigned numbers of the same width
ULess(a, b) ==
    IF a = << >> THEN FALSE
    ELSE IF a[Len(a)] # b[Len(b)] THEN a[Len(a)] < b[Len(b)]
    ELSE ULess(SubSeq(a, 1, Len(a) - 1), SubSeq(b, 1, Len(b) - 1))

ULeq(a, b) == a = b \/ ULess(a, b)

\* a < b for two's complement numbers of the same width
SLess(a, b) ==
    IF SignBit(a) # SignBit(b) THEN SignBit(a) ELSE ULess(a, b)

SLeq(a, b) == a = b \/ SLess(a, b)

\* C's integer conversions between widths
ZeroExtend(n, w) == n \o Rep(0, w - Len(n))
\* A widening that fills with zeros whatever the sign
SignExtend_zero(n, w) == ZeroExtend(n, w)
SignExtend(n, w) == n \o Rep(IF SignBit(n) THEN 255 ELSE 0, w - Len(n))
Truncate(n, w) == SubSeq(n, 1, w)

RECURSIVE Negate(_, _)
\* two's complement negation, computed as ~n + 1; c is the carry in
Negate(n, c) ==
    IF n = << >> THEN << >>
    ELSE LET s == (255 - Head(n)) + c
         IN  <<(s % 256)>> \o Negate(Tail(n), s \div 256)

RECURSIVE ShiftRightBytes(_, _)
ShiftRightBytes(n, k) ==
    IF k = 0 THEN n ELSE ShiftRightBytes(Tail(n) \o <<0>>, k - 1)

RECURSIVE ShiftRightBits(_, _)
\* n >> k for 0 <= k < 8
ShiftRightBits(n, k) ==
    IF k = 0 THEN n
    ELSE ShiftRightBits(
           [i \in 1..Len(n) |->
               (n[i] \div 2) + (IF i < Len(n) THEN (n[i + 1] % 2) * 128 ELSE 0)],
           k - 1)

\* n >> k on an unsigned number
ShiftRight(n, k) == ShiftRightBits(ShiftRightBytes(n, k \div 8), k % 8)

IsZero(n) == \A i \in 1..Len(n) : n[i] = 0

-----------------------------------------------------------------------------
(* Limits of the fixed-width types, as 8-byte numbers *)

Zero64     == <<0, 0, 0, 0, 0, 0, 0, 0>>
INT32_MAX  == <<255, 255, 255, 127, 0, 0, 0, 0>>
INT32_MIN  == <<0, 0, 0, 128, 255, 255, 255, 255>>
UINT32_MAX == <<255, 255, 255, 255, 0, 0, 0, 0>>
INT64_MAX  == <<255, 255, 255, 255, 255, 255, 255, 127>>
INT64_MIN  == <<0, 0, 0, 0, 0, 0, 0, 128>>

-----------------------------------------------------------------------------
(* Error kinds raised on the error sink *)

err_unsigned_negative == "PARAM_UNSIGNED_INTEGER_NEGATIVE_VALUE_UNSUPPORTED"
err_out_of_range      == "PARAM_VALUE_TOO_LARGE_FOR_DESTINATION"
err_inexact           == "PARAM_CANNOT_BE_REPRESENTED_EXACTLY"
err_not_integer       == "PARAM_NOT_INTEGER_TYPE"
err_too_small         == "TOO_SMALL_BUFFER"
err_bad_type          == "PARAM_OF_INCOMPATIBLE_TYPE"
err_null_argument     == "PASSED_NULL_PARAMETER"
err_unsupported_real  == "PARAM_UNSUPPORTED_FLOATING_POINT_FORMAT"

-----------------------------------------------------------------------------
(* The integer conversion engine *)

\* Return non-zero if the signed number (native bytes) is negative
is_negative(number, s) ==
    BitAnd(128, IF IS_BIG_ENDIAN THEN number[1] ELSE number[s], 8) # 0

RECURSIVE check_sign_bytes(_, _, _)
\* Check that the first n bytes of p all match the expected sign byte
check_sign_bytes(p, n, s) ==
    IF n = 0 THEN TRUE
    ELSE IF p[1] # s THEN FALSE
    ELSE check_sign_bytes(Tail(p), n - 1, s)

\* copy_integer writing the bytes that fit before it tests the ones that
\* do not
copy_integer_early(dest, dest_len, src, src_len, pad, signed_int) ==
    IF IS_BIG_ENDIAN
    THEN IF src_len < dest_len
         THEN [ret |-> 1, errs |-> << >>, dest |-> Rep(pad, dest_len - src_len) \o src]
         ELSE LET n == src_len - dest_len
              IN  IF \/ ~check_sign_bytes(src, n, pad)
                     \/ (signed_int # 0
                         /\ BitAnd(BitXor(pad, src[n + 1], 8), 128, 8) # 0)
                  THEN [ret |-> 0, errs |-> <<err_out_of_range>>,
                        dest |-> SubSeq(src, n + 1, src_len)]
                  ELSE [ret |-> 1, errs |-> << >>,
                        dest |-> SubSeq(src, n + 1, src_len)]
    ELSE IF src_len < dest_len
         THEN [ret |-> 1, errs |-> << >>, dest |-> src \o Rep(pad, dest_len - src_len)]
         ELSE LET n == src_len - dest_len
              IN  IF \/ ~check_sign_bytes(SubSeq(src, dest_len + 1, src_len), n, pad)
                     \/ (signed_int # 0
                         /\ BitAnd(BitXor(pad, src[dest_len], 8), 128, 8) # 0)
                  THEN [ret |-> 0, errs |-> <<err_out_of_range>>,
                        dest |-> SubSeq(src, 1, dest_len)]
                  ELSE [ret |-> 1, errs |-> << >>, dest |-> SubSeq(src, 1, dest_len)]

\* copy_integer filling the bytes above the source with zero whatever the
\* pad byte is
copy_integer_zeropad(dest, dest_len, src, src_len, pad, signed_int) ==
    IF IS_BIG_ENDIAN
    THEN IF src_len < dest_len
         THEN [ret |-> 1, errs |-> << >>, dest |-> Rep(0, dest_len - src_len) \o src]
         ELSE LET n == src_len - dest_len
              IN  IF \/ ~check_sign_bytes(src, n, pad)
                     \/ (signed_int # 0
                         /\ BitAnd(BitXor(pad, src[n + 1], 8), 128, 8) # 0)
                  THEN [ret |-> 0, errs |-> <<err_out_of_range>>, dest |-> dest]
                  ELSE [ret |-> 1, errs |-> << >>,
                        dest |-> SubSeq(src, n + 1, src_len)]
    ELSE IF src_len < dest_len
         THEN [ret |-> 1, errs |-> << >>, dest |-> src \o Rep(0, dest_len - src_len)]
         ELSE LET n == src_len - dest_len
              IN  IF \/ ~check_sign_bytes(SubSeq(src, dest_len + 1, src_len), n, pad)
                     \/ (signed_int # 0
                         /\ BitAnd(BitXor(pad, src[dest_len], 8), 128, 8) # 0)
                  THEN [ret |-> 0, errs |-> <<err_out_of_range>>, dest |-> dest]
                  ELSE [ret |-> 1, errs |-> << >>, dest |-> SubSeq(src, 1, dest_len)]

\* copy_integer without the sign test made when a signed value is shortened
copy_integer_nosign(dest, dest_len, src, src_len, pad, signed_int) ==
    IF IS_BIG_ENDIAN
    THEN IF src_len < dest_len
         THEN [ret |-> 1, errs |-> << >>, dest |-> Rep(pad, dest_len - src_len) \o src]
         ELSE LET n == src_len - dest_len
              IN  IF ~check_sign_bytes(src, n, pad)
                  THEN [ret |-> 0, errs |-> <<err_out_of_range>>, dest |-> dest]
                  ELSE [ret |-> 1, errs |-> << >>,
                        dest |-> SubSeq(src, n + 1, src_len)]
    ELSE IF src_len < dest_len
         THEN [ret |-> 1, errs |-> << >>, dest |-> src \o Rep(pad, dest_len - src_len)]
         ELSE LET n == src_len - dest_len
              IN  IF ~check_sign_bytes(SubSeq(src, dest_len + 1, src_len), n, pad)
                  THEN [ret |-> 0, errs |-> <<err_out_of_range>>, dest |-> dest]
                  ELSE [ret |-> 1, errs |-> << >>, dest |-> SubSeq(src, 1, dest_len)]

\* Copy an integer to another integer: different lengths, signed and unsigned,
\* both in native byte ordering.  The result is the return value, the errors
\* raised and the destination bytes after the call.
copy_integer(dest, dest_len, src, src_len, pad, signed_int) ==
    IF IS_BIG_ENDIAN
    THEN IF src_len < dest_len
         THEN [ret |-> 1, errs |-> << >>, dest |-> Rep(pad, dest_len - src_len) \o src]
         ELSE LET n == src_len - dest_len
              IN  IF \/ ~check_sign_bytes(src, n, pad)
                     \/ (signed_int # 0
                         /\ BitAnd(BitXor(pad, src[n + 1], 8), 128, 8) # 0)
                  THEN [ret |-> 0, errs |-> <<err_out_of_range>>, dest |-> dest]
                  ELSE [ret |-> 1, errs |-> << >>,
                        dest |-> SubSeq(src, n + 1, src_len)]
    ELSE IF src_len < dest_len
         THEN [ret |-> 1, errs |-> << >>, dest |-> src \o Rep(pad, dest_len - src_len)]
         ELSE LET n == src_len - dest_len
              IN  IF \/ ~check_sign_bytes(SubSeq(src, dest_len + 1, src_len), n, pad)
                     \/ (signed_int # 0
                         /\ BitAnd(BitXor(pad, src[dest_len], 8), 128, 8) # 0)
                  THEN [ret |-> 0, errs |-> <<err_out_of_range>>, dest |-> dest]
                  ELSE [ret |-> 1, errs |-> << >>, dest |-> SubSeq(src, 1, dest_len)]

\* Copy a signed number to a signed number of possibly different length
signed_from_signed(dest, dest_len, src, src_len) ==
    copy_integer(dest, dest_len, src, src_len,
                 IF is_negative(src, src_len) THEN 255 ELSE 0, 1)

\* Copy an unsigned number to a signed number of possibly different length
signed_from_unsigned(dest, dest_len, src, src_len) ==
    copy_integer(dest, dest_len, src, src_len, 0, 1)

\* Copy a signed number to an unsigned number of possibly different length
unsigned_from_signed(dest, dest_len, src, src_len) ==
    IF is_negative(src, src_len)
    THEN [ret |-> 0, errs |-> <<err_unsigned_negative>>, dest |-> dest]
    ELSE copy_integer(dest, dest_len, src, src_len, 0, 0)

\* Copy an unsigned number to an unsigned number of possibly different length
unsigned_from_unsigned(dest, dest_len, src, src_len) ==
    copy_integer(dest, dest_len, src, src_len, 0, 0)

-----------------------------------------------------------------------------
(* The values the calls are tried on: the boundaries of the fixed-width    *)
(* types and of the double's mantissa, as 8-byte bit patterns.             *)

One64         == <<1, 0, 0, 0, 0, 0, 0, 0>>
MinusOne64    == <<255, 255, 255, 255, 255, 255, 255, 255>>
Pow31         == <<0, 0, 0, 128, 0, 0, 0, 0>>
BelowInt32Min == <<255, 255, 255, 127, 255, 255, 255, 255>>
Pow32         == <<0, 0, 0, 0, 1, 0, 0, 0>>
Pow53Less1    == <<255, 255, 255, 255, 255, 255, 31, 0>>
Pow53         == <<0, 0, 0, 0, 0, 0, 32, 0>>
Pow53Plus1    == <<1, 0, 0, 0, 0, 0, 32, 0>>
MinusPow53Less1 == <<1, 0, 0, 0, 0, 0, 224, 255>>
MinusPow53    == <<0, 0, 0, 0, 0, 0, 224, 255>>

Values64 ==
    { Zero64, One64, MinusOne64, INT32_MAX, Pow31, INT32_MIN, BelowInt32Min,
      UINT32_MAX, Pow32, Pow53Less1, Pow53, Pow53Plus1, MinusPow53Less1,
      MinusPow53, INT64_MAX, INT64_MIN }

Values32 == { Truncate(v, 4) : v \in {Zero64, One64, MinusOne64, INT32_MAX, INT32_MIN} }

\* The widths integers are copied between: the native ones and an odd one.
Widths == {2, 4, 8}

\* What a buffer holds before anything is stored into it; no value tried has
\* such a byte, so a written byte shows.
Untouched(n) == Rep(170, n)

-----------------------------------------------------------------------------
(* The record of a call *)

NoCall == [op |-> "none", p |-> 0, arg |-> << >>, ret |-> 1, errs |-> << >>,
           out |-> << >>, fault |-> FALSE]

Called(op, p, arg, ret, errs, out) ==
    [op |-> op, p |-> p, arg |-> arg, ret |-> ret, errs |-> errs, out |-> out,
     fault |-> FALSE]

-----------------------------------------------------------------------------
(* The descriptor *)

OSSL_PARAM_INTEGER          == "INTEGER"
OSSL_PARAM_UNSIGNED_INTEGER == "UNSIGNED_INTEGER"
OSSL_PARAM_REAL             == "REAL"
OSSL_PARAM_UTF8_STRING      == "UTF8_STRING"
OSSL_PARAM_OCTET_STRING     == "OCTET_STRING"
OSSL_PARAM_UTF8_PTR         == "UTF8_PTR"
OSSL_PARAM_OCTET_PTR        == "OCTET_PTR"

DataTypes ==
    { OSSL_PARAM_INTEGER, OSSL_PARAM_UNSIGNED_INTEGER, OSSL_PARAM_REAL,
      OSSL_PARAM_UTF8_STRING, OSSL_PARAM_OCTET_STRING, OSSL_PARAM_UTF8_PTR,
      OSSL_PARAM_OCTET_PTR }

\* (size_t)-1
OSSL_PARAM_UNMODIFIED == -1

ossl_param_construct(key, data_type, data, data_size) ==
    [key |-> key, data_type |-> data_type, data |-> data,
     data_size |-> data_size, return_size |-> OSSL_PARAM_UNMODIFIED]

\* A key is << >> when absent (NULL) and <<s>> for the string s.
\* The entry that ends an array: its key is absent.
OSSL_PARAM_END ==
    [key |-> << >>, data_type |-> "END", data |-> NULL, data_size |-> 0,
     return_size |-> 0]

\* sizeof(int32_t), sizeof(int64_t), sizeof(double)
SizeofInt32  == 4
SizeofInt64  == 8
SizeofDouble == 8

\* The number of bits in the mantissa of a double
real_shift == IF SizeofDouble = 4 THEN 24 ELSE 53

-----------------------------------------------------------------------------
(* Doubles.  A double is kept as its sign, the magnitude of its integral   *)
(* part (an 8-byte number) and whether it has a fractional part; the model *)
(* uses only doubles that the format holds exactly.                        *)

Double(neg, mag, frac) == [neg |-> neg, mag |-> mag, frac |-> frac]

\* (double)n for a signed and for an unsigned number, exact for the
\* magnitudes the accessors let through
DoubleFromSigned(n) ==
    LET n8 == SignExtend(n, 8)
    IN  IF SignBit(n8) THEN Double(TRUE, Negate(n8, 1), FALSE)
        ELSE Double(FALSE, n8, FALSE)

DoubleFromUnsigned(n) == Double(FALSE, ZeroExtend(n, 8), FALSE)

\* What a REAL buffer holds before anything is stored: 0.5
UntouchedDouble == Double(FALSE, Zero64, TRUE)

-----------------------------------------------------------------------------
(* What a call does, as a record: the value returned, the errors raised,   *)
(* return_size and the buffer after the call, the value written through    *)
(* the output argument (<<v>>, or << >> when nothing is written), and      *)
(* whether the call read or wrote through a NULL reference.                *)

\* The buffer descriptor pi refers to (<< >> when it refers to none).
Buf(pi) ==
    IF pi = NULL THEN << >>
    ELSE IF params[pi].data = NULL THEN << >>
    ELSE mem[params[pi].data]

RSize(pi) == IF pi = NULL THEN 0 ELSE params[pi].return_size

Result(ret, errs, rs, data, out) ==
    [ret |-> ret, errs |-> errs, rs |-> rs, data |-> data, out |-> out,
     fault |-> FALSE]

\* Success that writes the buffer / that writes the output argument.
Stored(pi, rs, data) == Result(1, << >>, rs, data, << >>)
Got(pi, v)           == Result(1, << >>, RSize(pi), Buf(pi), <<v>>)
\* Success that only records the size required.
SizeOnly(pi, rs)     == Result(1, << >>, rs, Buf(pi), << >>)
\* Failure with one error raised, return_size left as rs.
Failed(pi, e, rs)    == Result(0, <<e>>, rs, Buf(pi), << >>)
\* A read or write through a NULL reference: the call does not return.
Fault(pi, rs) ==
    [ret |-> 0, errs |-> << >>, rs |-> rs, data |-> Buf(pi), out |-> << >>,
     fault |-> TRUE]

\* The result r of a conversion-engine call seen as the result of a get:
\* the destination is the caller's variable.
GotCopy(pi, r) ==
    IF r.ret = 1 THEN Got(pi, Native(r.dest))
    ELSE Result(0, r.errs, RSize(pi), Buf(pi), << >>)

\* Typed load and store of a number through p->data
Load(pi)     == Native(Buf(pi))
StoreNum(n)  == Native(n)

-----------------------------------------------------------------------------
(* General purpose integer calls that handle odd sizes *)

general_get_int(pi, val_size) ==
    LET p == params[pi]
    IN  IF p.data = NULL THEN Failed(pi, err_null_argument, RSize(pi))
        ELSE IF p.data_type = OSSL_PARAM_INTEGER
        THEN GotCopy(pi, signed_from_signed(Untouched(val_size), val_size,
                                            Buf(pi), p.data_size))
        ELSE IF p.data_type = OSSL_PARAM_UNSIGNED_INTEGER
        THEN GotCopy(pi, signed_from_unsigned(Untouched(val_size), val_size,
                                              Buf(pi), p.data_size))
        ELSE Failed(pi, err_not_integer, RSize(pi))

general_get_uint(pi, val_size) ==
    LET p == params[pi]
    IN  IF p.data = NULL THEN Failed(pi, err_null_argument, RSize(pi))
        ELSE IF p.data_type = OSSL_PARAM_INTEGER
        THEN GotCopy(pi, unsigned_from_signed(Untouched(val_size), val_size,
                                              Buf(pi), p.data_size))
        ELSE IF p.data_type = OSSL_PARAM_UNSIGNED_INTEGER
        THEN GotCopy(pi, unsigned_from_unsigned(Untouched(val_size), val_size,
                                                Buf(pi), p.data_size))
        ELSE Failed(pi, err_not_integer, RSize(pi))

\* The result r of a conversion-engine call seen as the result of a set
SetCopy(pi, r, val_size) ==
    Result(r.ret, r.errs, IF r.ret = 1 THEN params[pi].data_size ELSE val_size,
           r.dest, << >>)

general_set_int(pi, val, val_size) ==
    LET p == params[pi]
    IN  IF p.data = NULL THEN SizeOnly(pi, val_size)
        ELSE IF p.data_type = OSSL_PARAM_INTEGER
        THEN SetCopy(pi, signed_from_signed(Buf(pi), p.data_size,
                                            Native(val), val_size), val_size)
        ELSE IF p.data_type = OSSL_PARAM_UNSIGNED_INTEGER
        THEN SetCopy(pi, unsigned_from_signed(Buf(pi), p.data_size,
                                              Native(val), val_size), val_size)
        ELSE Failed(pi, err_not_integer, val_size)

\* general_set_uint taking the value for a signed one
general_set_uint_signed(pi, val, val_size) ==
    LET p == params[pi]
    IN  IF p.data = NULL THEN SizeOnly(pi, val_size)
        ELSE IF p.data_type = OSSL_PARAM_INTEGER
        THEN SetCopy(pi, signed_from_signed(Buf(pi), p.data_size,
                                            Native(val), val_size), val_size)
        ELSE IF p.data_type = OSSL_PARAM_UNSIGNED_INTEGER
        THEN SetCopy(pi, unsigned_from_signed(Buf(pi), p.data_size,
                                              Native(val), val_size), val_size)
        ELSE Failed(pi, err_not_integer, val_size)

general_set_uint(pi, val, val_size) ==
    LET p == params[pi]
    IN  IF p.data = NULL THEN SizeOnly(pi, val_size)
        ELSE IF p.data_type = OSSL_PARAM_INTEGER
        THEN SetCopy(pi, signed_from_unsigned(Buf(pi), p.data_size,
                                              Native(val), val_size), val_size)
        ELSE IF p.data_type = OSSL_PARAM_UNSIGNED_INTEGER
        THEN SetCopy(pi, unsigned_from_unsigned(Buf(pi), p.data_size,
                                                Native(val), val_size), val_size)
        ELSE Failed(pi, err_not_integer, val_size)

-----------------------------------------------------------------------------
(* Comparisons of a double with the integer limits, and its conversion to  *)
(* an integer type (the fraction is dropped).                              *)

\* |d| <= m and |d| < m, for an 8-byte magnitude m
MagLeq(d, m)  == ULess(d.mag, m) \/ (d.mag = m /\ ~d.frac)
MagLess(d, m) == ULess(d.mag, m)

\* d >= 0, with -0.5 and the like below 0
DoubleNonNeg(d) == ~d.neg \/ (IsZero(d.mag) /\ ~d.frac)

\* d >= INT32_MIN && d <= INT32_MAX
DoubleInInt32(d) == IF d.neg THEN MagLeq(d, Pow31) ELSE MagLeq(d, INT32_MAX)
\* d >= 0 && d <= UINT32_MAX
DoubleInUint32(d) == DoubleNonNeg(d) /\ MagLeq(d, UINT32_MAX)
\* d >= INT64_MIN && d < (double)(INT64_MAX - 65535) + 65536.0, which is 2^63
DoubleInInt64(d) == IF d.neg THEN MagLeq(d, INT64_MIN) ELSE MagLess(d, INT64_MIN)
\* d >= 0 && d < (double)(UINT64_MAX - 65535) + 65536.0, which is 2^64
DoubleInUint64(d) == DoubleNonNeg(d)

\* (int64_t)d, (uint64_t)d for a d in range
IntFromDouble(d) == IF d.neg THEN Negate(d.mag, 1) ELSE d.mag

-----------------------------------------------------------------------------
(* The fixed-width accessors.  pi is the descriptor (NULL: absent), val    *)
(* the output argument of a get (NULL: absent) or the value of a set.      *)

OSSL_PARAM_get_int32(pi, val) ==
    IF val = NULL \/ pi = NULL THEN Failed(pi, err_null_argument, RSize(pi))
    ELSE LET p == params[pi] IN
    IF p.data = NULL THEN Failed(pi, err_null_argument, RSize(pi))
    ELSE IF p.data_type = OSSL_PARAM_INTEGER THEN
        IF p.data_size = SizeofInt32 THEN Got(pi, Load(pi))
        ELSE IF p.data_size = SizeofInt64 THEN
            IF SLeq(INT32_MIN, Load(pi)) /\ SLeq(Load(pi), INT32_MAX)
            THEN Got(pi, Truncate(Load(pi), 4))
            ELSE Failed(pi, err_out_of_range, RSize(pi))
        ELSE general_get_int(pi, SizeofInt32)
    ELSE IF p.data_type = OSSL_PARAM_UNSIGNED_INTEGER THEN
        IF p.data_size = SizeofInt32 THEN
            IF ULeq(ZeroExtend(Load(pi), 8), INT32_MAX)
            THEN Got(pi, Load(pi))
            ELSE Failed(pi, err_out_of_range, RSize(pi))
        ELSE IF p.data_size = SizeofInt64 THEN
            IF ULeq(Load(pi), INT32_MAX)
            THEN Got(pi, Truncate(Load(pi), 4))
            ELSE Failed(pi, err_out_of_range, RSize(pi))
        ELSE general_get_int(pi, SizeofInt32)
    ELSE IF p.data_type = OSSL_PARAM_REAL THEN
        IF p.data_size = SizeofDouble THEN
            IF DoubleInInt32(Buf(pi)) /\ ~Buf(pi).frac
            THEN Got(pi, Truncate(IntFromDouble(Buf(pi)), 4))
            ELSE Failed(pi, err_out_of_range, RSize(pi))
        ELSE Failed(pi, err_unsupported_real, RSize(pi))
    ELSE Failed(pi, err_bad_type, RSize(pi))

OSSL_PARAM_set_int32(pi, val) ==
    IF pi = NULL THEN Failed(pi, err_null_argument, RSize(pi))
    ELSE LET p == params[pi] IN
    IF p.data_type = OSSL_PARAM_INTEGER THEN
        IF p.data = NULL THEN SizeOnly(pi, SizeofInt32)
        ELSE IF p.data_size = SizeofInt32 THEN Stored(pi, SizeofInt32, StoreNum(val))
        ELSE IF p.data_size = SizeofInt64
        THEN Stored(pi, SizeofInt64, StoreNum(SignExtend(val, 8)))
        ELSE general_set_int(pi, val, SizeofInt32)
    ELSE IF p.data_type = OSSL_PARAM_UNSIGNED_INTEGER /\ ~SignBit(val) THEN
        IF p.data = NULL THEN SizeOnly(pi, SizeofInt32)
        ELSE IF p.data_size = SizeofInt32 THEN Stored(pi, SizeofInt32, StoreNum(val))
        ELSE IF p.data_size = SizeofInt64
        THEN Stored(pi, SizeofInt64, StoreNum(ZeroExtend(val, 8)))
        ELSE general_set_int(pi, val, SizeofInt32)
    ELSE IF p.data_type = OSSL_PARAM_REAL THEN
        IF p.data = NULL THEN SizeOnly(pi, SizeofDouble)
        ELSE IF p.data_size = SizeofDouble THEN
            IF real_shift < 8 * SizeofInt32 - 1
               /\ ~IsZero(ShiftRight(IF SignBit(val) THEN Negate(val, 1) ELSE val,
                                     real_shift))
            THEN Failed(pi, err_inexact, SizeofDouble)
            ELSE Stored(pi, SizeofDouble, DoubleFromSigned(val))
        ELSE Failed(pi, err_unsupported_real, SizeofDouble)
    ELSE Failed(pi, err_bad_type, 0)

OSSL_PARAM_get_uint32(pi, val) ==
    IF val = NULL \/ pi = NULL THEN Failed(pi, err_null_argument, RSize(pi))
    ELSE LET p == params[pi] IN
    IF p.data = NULL THEN Failed(pi, err_null_argument, RSize(pi))
    ELSE IF p.data_type = OSSL_PARAM_UNSIGNED_INTEGER THEN
        IF p.data_size = SizeofInt32 THEN Got(pi, Load(pi))
        ELSE IF p.data_size = SizeofInt64 THEN
            IF ULeq(Load(pi), UINT32_MAX)
            THEN Got(pi, Truncate(Load(pi), 4))
            ELSE Failed(pi, err_out_of_range, RSize(pi))
        ELSE general_get_uint(pi, SizeofInt32)
    ELSE IF p.data_type = OSSL_PARAM_INTEGER THEN
        IF p.data_size = SizeofInt32 THEN
            IF ~SignBit(Load(pi))
            THEN Got(pi, Load(pi))
            ELSE Failed(pi, err_unsigned_negative, RSize(pi))
        ELSE IF p.data_size = SizeofInt64 THEN
            IF ~SignBit(Load(pi)) /\ SLeq(Load(pi), UINT32_MAX)
            THEN Got(pi, Truncate(Load(pi), 4))
            ELSE IF SignBit(Load(pi))
            THEN Failed(pi, err_unsigned_negative, RSize(pi))
            ELSE Failed(pi, err_out_of_range, RSize(pi))
        ELSE general_get_uint(pi, SizeofInt32)
    ELSE IF p.data_type = OSSL_PARAM_REAL THEN
        IF p.data_size = SizeofDouble THEN
            IF DoubleInUint32(Buf(pi)) /\ ~Buf(pi).frac
            THEN Got(pi, Truncate(IntFromDouble(Buf(pi)), 4))
            ELSE Failed(pi, err_inexact, RSize(pi))
        ELSE Failed(pi, err_unsupported_real, RSize(pi))
    ELSE Failed(pi, err_bad_type, RSize(pi))

\* OSSL_PARAM_set_uint32 reporting the width of its argument when it writes
\* 8 bytes
OSSL_PARAM_set_uint32_natural(pi, val) ==
    IF pi = NULL THEN Failed(pi, err_null_argument, RSize(pi))
    ELSE LET p == params[pi] IN
    IF p.data_type = OSSL_PARAM_UNSIGNED_INTEGER THEN
        IF p.data = NULL THEN SizeOnly(pi, SizeofInt32)
        ELSE IF p.data_size = SizeofInt32 THEN Stored(pi, SizeofInt32, StoreNum(val))
        ELSE IF p.data_size = SizeofInt64
        THEN Stored(pi, SizeofInt32, StoreNum(ZeroExtend(val, 8)))
        ELSE general_set_uint(pi, val, SizeofInt32)
    ELSE IF p.data_type = OSSL_PARAM_INTEGER THEN
        IF p.data = NULL THEN SizeOnly(pi, SizeofInt32)
        ELSE IF p.data_size = SizeofInt32 THEN
            IF ULeq(ZeroExtend(val, 8), INT32_MAX)
            THEN Stored(pi, SizeofInt32, StoreNum(val))
            ELSE Failed(pi, err_out_of_range, SizeofInt32)
        ELSE IF p.data_size = SizeofInt64
        THEN Stored(pi, SizeofInt32, StoreNum(ZeroExtend(val, 8)))
        ELSE general_set_uint(pi, val, SizeofInt32)
    ELSE IF p.data_type = OSSL_PARAM_REAL THEN
        IF p.data = NULL THEN SizeOnly(pi, SizeofDouble)
        ELSE IF p.data_size = SizeofDouble THEN
            IF real_shift < 8 * SizeofInt32 /\ ~IsZero(ShiftRight(val, real_shift))
            THEN Failed(pi, err_inexact, 0)
            ELSE Stored(pi, SizeofDouble, DoubleFromUnsigned(val))
        ELSE Failed(pi, err_unsupported_real, 0)
    ELSE Failed(pi, err_bad_type, 0)

OSSL_PARAM_set_uint32(pi, val) ==
    IF pi = NULL THEN Failed(pi, err_null_argument, RSize(pi))
    ELSE LET p == params[pi] IN
    IF p.data_type = OSSL_PARAM_UNSIGNED_INTEGER THEN
        IF p.data = NULL THEN SizeOnly(pi, SizeofInt32)
        ELSE IF p.data_size = SizeofInt32 THEN Stored(pi, SizeofInt32, StoreNum(val))
        ELSE IF p.data_size = SizeofInt64
        THEN Stored(pi, SizeofInt64, StoreNum(ZeroExtend(val, 8)))
        ELSE general_set_uint(pi, val, SizeofInt32)
    ELSE IF p.data_type = OSSL_PARAM_INTEGER THEN
        IF p.data = NULL THEN SizeOnly(pi, SizeofInt32)
        ELSE IF p.data_size = SizeofInt32 THEN
            IF ULeq(ZeroExtend(val, 8), INT32_MAX)
            THEN Stored(pi, SizeofInt32, StoreNum(val))
            ELSE Failed(pi, err_out_of_range, SizeofInt32)
        ELSE IF p.data_size = SizeofInt64
        THEN Stored(pi, SizeofInt64, StoreNum(ZeroExtend(val, 8)))
        ELSE general_set_uint(pi, val, SizeofInt32)
    ELSE IF p.data_type = OSSL_PARAM_REAL THEN
        IF p.data = NULL THEN SizeOnly(pi, SizeofDouble)
        ELSE IF p.data_size = SizeofDouble THEN
            IF real_shift < 8 * SizeofInt32 /\ ~IsZero(ShiftRight(val, real_shift))
            THEN Failed(pi, err_inexact, 0)
            ELSE Stored(pi, SizeofDouble, DoubleFromUnsigned(val))
        ELSE Failed(pi, err_unsupported_real, 0)
    ELSE Failed(pi, err_bad_type, 0)

\* -val on an int64_t overflows for INT64_MIN, which is undefined: a build
\* either wraps (the result is the same bit pattern, 2^63 as uint64_t) or traps.
NegOverflow == {"wrap", "trap"}

\* val < 0 ? -val : val, as a uint64_t
Abs64(val) == IF SignBit(val) THEN Negate(val, 1) ELSE val

\* OSSL_PARAM_get_int64 reading an unsigned integer of 8 bytes without a
\* range test
OSSL_PARAM_get_int64_unchecked(pi, val) ==
    IF val = NULL \/ pi = NULL THEN Failed(pi, err_null_argument, RSize(pi))
    ELSE LET p == params[pi] IN
    IF p.data = NULL THEN Failed(pi, err_null_argument, RSize(pi))
    ELSE IF p.data_type = OSSL_PARAM_INTEGER THEN
        IF p.data_size = SizeofInt32 THEN Got(pi, SignExtend(Load(pi), 8))
        ELSE IF p.data_size = SizeofInt64 THEN Got(pi, Load(pi))
        ELSE general_get_int(pi, SizeofInt64)
    ELSE IF p.data_type = OSSL_PARAM_UNSIGNED_INTEGER THEN
        IF p.data_size = SizeofInt32 THEN Got(pi, ZeroExtend(Load(pi), 8))
        ELSE IF p.data_size = SizeofInt64 THEN
            Got(pi, Load(pi))
        ELSE general_get_int(pi, SizeofInt64)
    ELSE IF p.data_type = OSSL_PARAM_REAL THEN
        IF p.data_size = SizeofDouble THEN
            IF DoubleInInt64(Buf(pi)) /\ ~Buf(pi).frac
            THEN Got(pi, IntFromDouble(Buf(pi)))
            ELSE Failed(pi, err_inexact, RSize(pi))
        ELSE Failed(pi, err_unsupported_real, RSize(pi))
    ELSE Failed(pi, err_bad_type, RSize(pi))

OSSL_PARAM_get_int64(pi, val) ==
    IF val = NULL \/ pi = NULL THEN Failed(pi, err_null_argument, RSize(pi))
    ELSE LET p == params[pi] IN
    IF p.data = NULL THEN Failed(pi, err_null_argument, RSize(pi))
    ELSE IF p.data_type = OSSL_PARAM_INTEGER THEN
        IF p.data_size = SizeofInt32 THEN Got(pi, SignExtend(Load(pi), 8))
        ELSE IF p.data_size = SizeofInt64 THEN Got(pi, Load(pi))
        ELSE general_get_int(pi, SizeofInt64)
    ELSE IF p.data_type = OSSL_PARAM_UNSIGNED_INTEGER THEN
        IF p.data_size = SizeofInt32 THEN Got(pi, ZeroExtend(Load(pi), 8))
        ELSE IF p.data_size = SizeofInt64 THEN
            IF ULeq(Load(pi), INT64_MAX)
            THEN Got(pi, Load(pi))
            ELSE Failed(pi, err_out_of_range, RSize(pi))
        ELSE general_get_int(pi, SizeofInt64)
    ELSE IF p.data_type = OSSL_PARAM_REAL THEN
        IF p.data_size = SizeofDouble THEN
            IF DoubleInInt64(Buf(pi)) /\ ~Buf(pi).frac
            THEN Got(pi, IntFromDouble(Buf(pi)))
            ELSE Failed(pi, err_inexact, RSize(pi))
        ELSE Failed(pi, err_unsupported_real, RSize(pi))
    ELSE Failed(pi, err_bad_type, RSize(pi))

OSSL_PARAM_set_int64(pi, val, ub) ==
    IF pi = NULL THEN Failed(pi, err_null_argument, RSize(pi))
    ELSE LET p == params[pi] IN
    IF p.data_type = OSSL_PARAM_INTEGER THEN
        IF p.data = NULL THEN SizeOnly(pi, SizeofInt64)
        ELSE IF p.data_size = SizeofInt32 THEN
            IF SLeq(INT32_MIN, val) /\ SLeq(val, INT32_MAX)
            THEN Stored(pi, SizeofInt32, StoreNum(Truncate(val, 4)))
            ELSE Failed(pi, err_out_of_range, 0)
        ELSE IF p.data_size = SizeofInt64
        THEN Stored(pi, SizeofInt64, StoreNum(val))
        ELSE general_set_int(pi, val, SizeofInt64)
    ELSE IF p.data_type = OSSL_PARAM_UNSIGNED_INTEGER /\ ~SignBit(val) THEN
        IF p.data = NULL THEN SizeOnly(pi, SizeofInt64)
        ELSE IF p.data_size = SizeofInt32 THEN
            IF SLeq(val, UINT32_MAX)
            THEN Stored(pi, SizeofInt32, StoreNum(Truncate(val, 4)))
            ELSE Failed(pi, err_out_of_range, 0)
        ELSE IF p.data_size = SizeofInt64
        THEN Stored(pi, SizeofInt64, StoreNum(val))
        ELSE general_set_int(pi, val, SizeofInt64)
    ELSE IF p.data_type = OSSL_PARAM_REAL THEN
        IF p.data = NULL THEN SizeOnly(pi, SizeofDouble)
        ELSE IF p.data_size = SizeofDouble THEN
            IF val = INT64_MIN /\ ub = "trap" THEN Fault(pi, 0)
            ELSE IF IsZero(ShiftRight(Abs64(val), real_shift))
            THEN Stored(pi, SizeofDouble, DoubleFromSigned(val))
            ELSE Failed(pi, err_inexact, 0)
        ELSE Failed(pi, err_unsupported_real, 0)
    ELSE Failed(pi, err_bad_type, 0)

OSSL_PARAM_get_uint64(pi, val) ==
    IF val = NULL \/ pi = NULL THEN Failed(pi, err_null_argument, RSize(pi))
    ELSE LET p == params[pi] IN
    IF p.data = NULL THEN Failed(pi, err_null_argument, RSize(pi))
    ELSE IF p.data_type = OSSL_PARAM_UNSIGNED_INTEGER THEN
        IF p.data_size = SizeofInt32 THEN Got(pi, ZeroExtend(Load(pi), 8))
        ELSE IF p.data_size = SizeofInt64 THEN Got(pi, Load(pi))
        ELSE general_get_uint(pi, SizeofInt64)
    ELSE IF p.data_type = OSSL_PARAM_INTEGER THEN
        IF p.data_size = SizeofInt32 THEN
            IF ~SignBit(Load(pi))
            THEN Got(pi, SignExtend(Load(pi), 8))
            ELSE Failed(pi, err_unsigned_negative, RSize(pi))
        ELSE IF p.data_size = SizeofInt64 THEN
            IF ~SignBit(Load(pi))
            THEN Got(pi, Load(pi))
            ELSE Failed(pi, err_unsigned_negative, RSize(pi))
        ELSE general_get_uint(pi, SizeofInt64)
    ELSE IF p.data_type = OSSL_PARAM_REAL THEN
        IF p.data_size = SizeofDouble THEN
            IF DoubleInUint64(Buf(pi)) /\ ~Buf(pi).frac
            THEN Got(pi, IntFromDouble(Buf(pi)))
            ELSE Failed(pi, err_inexact, RSize(pi))
        ELSE Failed(pi, err_unsupported_real, RSize(pi))
    ELSE Failed(pi, err_bad_type, RSize(pi))

OSSL_PARAM_set_uint64(pi, val) ==
    IF pi = NULL THEN Failed(pi, err_null_argument, RSize(pi))
    ELSE LET p == params[pi] IN
    IF p.data_type = OSSL_PARAM_UNSIGNED_INTEGER THEN
        IF p.data = NULL THEN SizeOnly(pi, SizeofInt64)
        ELSE IF p.data_size = SizeofInt32 THEN
            IF ULeq(val, UINT32_MAX)
            THEN Stored(pi, SizeofInt32, StoreNum(Truncate(val, 4)))
            ELSE Failed(pi, err_out_of_range, 0)
        ELSE IF p.data_size = SizeofInt64
        THEN Stored(pi, SizeofInt64, StoreNum(val))
        ELSE general_set_uint(pi, val, SizeofInt64)
    ELSE IF p.data_type = OSSL_PARAM_INTEGER THEN
        IF p.data = NULL THEN SizeOnly(pi, SizeofInt64)
        ELSE IF p.data_size = SizeofInt32 THEN
            IF ULeq(val, INT32_MAX)
            THEN Stored(pi, SizeofInt32, StoreNum(Truncate(val, 4)))
            ELSE Failed(pi, err_out_of_range, 0)
        ELSE IF p.data_size = SizeofInt64 THEN
            IF ULeq(val, INT64_MAX)
            THEN Stored(pi, SizeofInt64, StoreNum(val))
            ELSE Failed(pi, err_out_of_range, 0)
        ELSE general_set_uint(pi, val, SizeofInt64)
    ELSE IF p.data_type = OSSL_PARAM_REAL THEN
        \* p->data is not tested here before it is written through
        IF p.data_size = SizeofDouble THEN
            IF IsZero(ShiftRight(val, real_shift))
            THEN IF p.data = NULL THEN Fault(pi, SizeofDouble)
                 ELSE Stored(pi, SizeofDouble, DoubleFromUnsigned(val))
            ELSE Failed(pi, err_inexact, 0)
        ELSE Failed(pi, err_unsupported_real, 0)
    ELSE Failed(pi, err_bad_type, 0)

-----------------------------------------------------------------------------
(* The accessors of the native C types dispatch on the width of the type.  *)

\* sizeof(int), sizeof(long int), sizeof(size_t), sizeof(time_t) of an LP64 build
SizeofInt   == 4
SizeofLong  == 8
SizeofSizeT == 8
SizeofTimeT == 8

OSSL_PARAM_get_int(pi, val) ==
    IF SizeofInt = SizeofInt32 THEN OSSL_PARAM_get_int32(pi, val)
    ELSE IF SizeofInt = SizeofInt64 THEN OSSL_PARAM_get_int64(pi, val)
    ELSE general_get_int(pi, SizeofInt)

OSSL_PARAM_set_int(pi, val, ub) ==
    IF SizeofInt = SizeofInt32 THEN OSSL_PARAM_set_int32(pi, val)
    ELSE IF SizeofInt = SizeofInt64 THEN OSSL_PARAM_set_int64(pi, val, ub)
    ELSE general_set_int(pi, val, SizeofInt)

OSSL_PARAM_get_uint(pi, val) ==
    IF SizeofInt = SizeofInt32 THEN OSSL_PARAM_get_uint32(pi, val)
    ELSE IF SizeofInt = SizeofInt64 THEN OSSL_PARAM_get_uint64(pi, val)
    ELSE general_get_uint(pi, SizeofInt)

OSSL_PARAM_set_uint(pi, val) ==
    IF SizeofInt = SizeofInt32 THEN OSSL_PARAM_set_uint32(pi, val)
    ELSE IF SizeofInt = SizeofInt64 THEN OSSL_PARAM_set_uint64(pi, val)
    ELSE general_set_uint(pi, val, SizeofInt)

OSSL_PARAM_get_long(pi, val) ==
    IF SizeofLong = SizeofInt32 THEN OSSL_PARAM_get_int32(pi, val)
    ELSE IF SizeofLong = SizeofInt64 THEN OSSL_PARAM_get_int64(pi, val)
    ELSE general_get_int(pi, SizeofLong)

OSSL_PARAM_set_long(pi, val, ub) ==
    IF SizeofLong = SizeofInt32 THEN OSSL_PARAM_set_int32(pi, val)
    ELSE IF SizeofLong = SizeofInt64 THEN OSSL_PARAM_set_int64(pi, val, ub)
    ELSE general_set_int(pi, val, SizeofLong)

OSSL_PARAM_get_ulong(pi, val) ==
    IF SizeofLong = SizeofInt32 THEN OSSL_PARAM_get_uint32(pi, val)
    ELSE IF SizeofLong = SizeofInt64 THEN OSSL_PARAM_get_uint64(pi, val)
    ELSE general_get_uint(pi, SizeofLong)

OSSL_PARAM_set_ulong(pi, val) ==
    IF SizeofLong = SizeofInt32 THEN OSSL_PARAM_set_uint32(pi, val)
    ELSE IF SizeofLong = SizeofInt64 THEN OSSL_PARAM_set_uint64(pi, val)
    ELSE general_set_uint(pi, val, SizeofLong)

OSSL_PARAM_get_size_t(pi, val) ==
    IF SizeofSizeT = SizeofInt32 THEN OSSL_PARAM_get_uint32(pi, val)
    ELSE IF SizeofSizeT = SizeofInt64 THEN OSSL_PARAM_get_uint64(pi, val)
    ELSE general_get_uint(pi, SizeofSizeT)

OSSL_PARAM_set_size_t(pi, val) ==
    IF SizeofSizeT = SizeofInt32 THEN OSSL_PARAM_set_uint32(pi, val)
    ELSE IF SizeofSizeT = SizeofInt64 THEN OSSL_PARAM_set_uint64(pi, val)
    ELSE general_set_uint(pi, val, SizeofSizeT)

OSSL_PARAM_get_time_t(pi, val) ==
    IF SizeofTimeT = SizeofInt32 THEN OSSL_PARAM_get_int32(pi, val)
    ELSE IF SizeofTimeT = SizeofInt64 THEN OSSL_PARAM_get_int64(pi, val)
    ELSE general_get_int(pi, SizeofTimeT)

OSSL_PARAM_set_time_t(pi, val, ub) ==
    IF SizeofTimeT = SizeofInt32 THEN OSSL_PARAM_set_int32(pi, val)
    ELSE IF SizeofTimeT = SizeofInt64 THEN OSSL_PARAM_set_int64(pi, val, ub)
    ELSE general_set_int(pi, val, SizeofTimeT)

-----------------------------------------------------------------------------
(* OSSL_PARAM_get_double, OSSL_PARAM_set_double *)

OSSL_PARAM_get_double(pi, val, ub) ==
    IF val = NULL \/ pi = NULL THEN Failed(pi, err_null_argument, RSize(pi))
    ELSE LET p == params[pi] IN
    IF p.data = NULL THEN Failed(pi, err_null_argument, RSize(pi))
    ELSE IF p.data_type = OSSL_PARAM_REAL THEN
        IF p.data_size = SizeofDouble THEN Got(pi, Buf(pi))
        ELSE Failed(pi, err_unsupported_real, RSize(pi))
    ELSE IF p.data_type = OSSL_PARAM_UNSIGNED_INTEGER /\ p.data_size = SizeofInt32
    THEN Got(pi, DoubleFromUnsigned(Load(pi)))
    ELSE IF p.data_type = OSSL_PARAM_UNSIGNED_INTEGER /\ p.data_size = SizeofInt64
    THEN IF IsZero(ShiftRight(Load(pi), real_shift))
         THEN Got(pi, DoubleFromUnsigned(Load(pi)))
         ELSE Failed(pi, err_inexact, RSize(pi))
    ELSE IF p.data_type = OSSL_PARAM_INTEGER /\ p.data_size = SizeofInt32
    THEN Got(pi, DoubleFromSigned(Load(pi)))
    ELSE IF p.data_type = OSSL_PARAM_INTEGER /\ p.data_size = SizeofInt64
    THEN IF Load(pi) = INT64_MIN /\ ub = "trap" THEN Fault(pi, RSize(pi))
         ELSE IF IsZero(ShiftRight(Abs64(Load(pi)), real_shift))
         THEN Got(pi, DoubleFromSigned(Load(pi)))
         ELSE Failed(pi, err_inexact, RSize(pi))
    ELSE Failed(pi, err_bad_type, RSize(pi))

\* val != (uint64_t)val: the conversion drops the fraction; for a val of -1 or
\* below it is undefined, and whatever uint64_t it yields is not negative, so
\* the two differ.
NotExactUint64(val) == val.frac \/ ~DoubleNonNeg(val)
\* val != (int64_t)val: as above; outside the range of int64_t the conversion
\* is undefined, and whatever int64_t it yields is in that range.
NotExactInt64(val) == val.frac \/ ~DoubleInInt64(val)

OSSL_PARAM_set_double(pi, val) ==
    IF pi = NULL THEN Failed(pi, err_null_argument, RSize(pi))
    ELSE LET p == params[pi] IN
    IF p.data_type = OSSL_PARAM_REAL THEN
        IF p.data = NULL THEN SizeOnly(pi, SizeofDouble)
        ELSE IF p.data_size = SizeofDouble THEN Stored(pi, SizeofDouble, val)
        ELSE Failed(pi, err_unsupported_real, 0)
    ELSE IF p.data_type = OSSL_PARAM_UNSIGNED_INTEGER /\ p.data = NULL
    THEN SizeOnly(pi, SizeofDouble)
    ELSE IF p.data_type = OSSL_PARAM_UNSIGNED_INTEGER /\ NotExactUint64(val)
    THEN Failed(pi, err_inexact, 0)
    ELSE IF p.data_type = OSSL_PARAM_UNSIGNED_INTEGER /\ p.data_size = SizeofInt32
    THEN IF DoubleNonNeg(val) /\ MagLess(val, Pow32)
         THEN Stored(pi, SizeofInt32, StoreNum(Truncate(IntFromDouble(val), 4)))
         ELSE Failed(pi, err_out_of_range, 0)
    ELSE IF p.data_type = OSSL_PARAM_UNSIGNED_INTEGER /\ p.data_size = SizeofInt64
    THEN IF DoubleInUint64(val)
         THEN Stored(pi, SizeofInt64, StoreNum(IntFromDouble(val)))
         ELSE Failed(pi, err_out_of_range, 0)
    ELSE IF p.data_type = OSSL_PARAM_INTEGER /\ p.data = NULL
    THEN SizeOnly(pi, SizeofDouble)
    ELSE IF p.data_type = OSSL_PARAM_INTEGER /\ NotExactInt64(val)
    THEN Failed(pi, err_inexact, 0)
    ELSE IF p.data_type = OSSL_PARAM_INTEGER /\ p.data_size = SizeofInt32
    THEN IF (IF val.neg THEN MagLeq(val, Pow31) ELSE MagLess(val, Pow31))
         THEN Stored(pi, SizeofInt32, StoreNum(Truncate(IntFromDouble(val), 4)))
         ELSE Failed(pi, err_out_of_range, 0)
    ELSE IF p.data_type = OSSL_PARAM_INTEGER /\ p.data_size = SizeofInt64
    THEN IF DoubleInInt64(val)
         THEN Stored(pi, SizeofInt64, StoreNum(IntFromDouble(val)))
         ELSE Failed(pi, err_out_of_range, 0)
    ELSE Failed(pi, err_bad_type, 0)

-----------------------------------------------------------------------------
(* Big numbers.  A BIGNUM is its sign and its magnitude, a number with no   *)
(* leading zero byte (zero is the empty magnitude).                        *)

BigNum(neg, mag) == [neg |-> neg, mag |-> mag]

RECURSIVE StripZeros(_)
StripZeros(n) ==
    IF n = << >> THEN << >>
    ELSE IF n[Len(n)] = 0 THEN StripZeros(SubSeq(n, 1, Len(n) - 1))
    ELSE n

BN_num_bytes(val)   == Len(val.mag)
BN_is_negative(val) == val.neg

\* The magnitude in len native bytes, zero padded: the length written and the
\* bytes; the length is -1, and nothing is written, when it does not fit
BN_bn2nativepad(val, len) ==
    IF len < BN_num_bytes(val) THEN [ret |-> -1, to |-> << >>]
    ELSE [ret |-> len, to |-> Native(ZeroExtend(val.mag, len))]

\* The value in len native bytes, two's complement; as above
BN_signed_bn2native(val, len) ==
    LET m == ZeroExtend(val.mag, len)
        t == IF val.neg THEN Negate(m, 1) ELSE m
    IN  IF len < BN_num_bytes(val) \/ SignBit(t) # val.neg
        THEN [ret |-> -1, to |-> << >>]
        ELSE [ret |-> len, to |-> Native(t)]

\* The big number that len native bytes hold, unsigned and two's complement
BN_native2bn(data, len) == BigNum(FALSE, StripZeros(Native(data)))

BN_signed_native2bn(data, len) ==
    IF len > 0 /\ SignBit(Native(data))
    THEN BigNum(TRUE, StripZeros(Negate(Native(data), 1)))
    ELSE BigNum(FALSE, StripZeros(Native(data)))

ERR_R_BN_LIB             == "BN_LIB"
CRYPTO_R_INTEGER_OVERFLOW == "INTEGER_OVERFLOW"

\* OSSL_PARAM_get_BN reading every integer as an unsigned one
OSSL_PARAM_get_BN_unsigned(pi, val, alloc) ==
    IF val = NULL \/ pi = NULL THEN Failed(pi, err_null_argument, RSize(pi))
    ELSE LET p == params[pi] IN
    IF p.data = NULL THEN Failed(pi, err_null_argument, RSize(pi))
    ELSE IF p.data_type \in {OSSL_PARAM_UNSIGNED_INTEGER, OSSL_PARAM_INTEGER} THEN
        IF alloc THEN Got(pi, BN_native2bn(Buf(pi), p.data_size))
        ELSE Failed(pi, ERR_R_BN_LIB, RSize(pi))
    ELSE Result(0, <<err_bad_type, ERR_R_BN_LIB>>, RSize(pi), Buf(pi), << >>)

\* alloc: whether the allocation of the BIGNUM succeeds
OSSL_PARAM_get_BN(pi, val, alloc) ==
    IF val = NULL \/ pi = NULL THEN Failed(pi, err_null_argument, RSize(pi))
    ELSE LET p == params[pi] IN
    IF p.data = NULL THEN Failed(pi, err_null_argument, RSize(pi))
    ELSE IF p.data_type = OSSL_PARAM_UNSIGNED_INTEGER THEN
        IF alloc THEN Got(pi, BN_native2bn(Buf(pi), p.data_size))
        ELSE Failed(pi, ERR_R_BN_LIB, RSize(pi))
    ELSE IF p.data_type = OSSL_PARAM_INTEGER THEN
        IF alloc THEN Got(pi, BN_signed_native2bn(Buf(pi), p.data_size))
        ELSE Failed(pi, ERR_R_BN_LIB, RSize(pi))
    ELSE Result(0, <<err_bad_type, ERR_R_BN_LIB>>, RSize(pi), Buf(pi), << >>)

\* OSSL_PARAM_set_BN without the byte it adds for the sign of a signed
\* integer
OSSL_PARAM_set_BN_nosign(pi, val) ==
    IF pi = NULL THEN Failed(pi, err_null_argument, RSize(pi))
    ELSE IF val = << >> THEN Failed(pi, err_null_argument, 0)
    ELSE LET p     == params[pi]
             b     == val[1]
             bytes == IF BN_num_bytes(b) = 0 THEN 1 ELSE BN_num_bytes(b)
         IN
    IF p.data_type = OSSL_PARAM_UNSIGNED_INTEGER /\ BN_is_negative(b)
    THEN Failed(pi, err_bad_type, 0)
    ELSE IF p.data = NULL THEN SizeOnly(pi, bytes)
    ELSE IF p.data_size >= bytes THEN
        IF p.data_type = OSSL_PARAM_UNSIGNED_INTEGER THEN
            IF BN_bn2nativepad(b, p.data_size).ret < 0
            THEN Failed(pi, CRYPTO_R_INTEGER_OVERFLOW, 0)
            ELSE Stored(pi, p.data_size, BN_bn2nativepad(b, p.data_size).to)
        ELSE IF p.data_type = OSSL_PARAM_INTEGER THEN
            IF BN_signed_bn2native(b, p.data_size).ret < 0
            THEN Failed(pi, CRYPTO_R_INTEGER_OVERFLOW, 0)
            ELSE Stored(pi, p.data_size, BN_signed_bn2native(b, p.data_size).to)
        ELSE Failed(pi, err_bad_type, 0)
    ELSE Failed(pi, err_too_small, bytes)

\* val: the big number (<< >>: absent, else <<b>>)
OSSL_PARAM_set_BN(pi, val) ==
    IF pi = NULL THEN Failed(pi, err_null_argument, RSize(pi))
    ELSE IF val = << >> THEN Failed(pi, err_null_argument, 0)
    ELSE LET p     == params[pi]
             b     == val[1]
             bytes == IF p.data_type = OSSL_PARAM_INTEGER
                      THEN BN_num_bytes(b) + 1
                      ELSE IF BN_num_bytes(b) = 0 THEN 1 ELSE BN_num_bytes(b)
         IN
    IF p.data_type = OSSL_PARAM_UNSIGNED_INTEGER /\ BN_is_negative(b)
    THEN Failed(pi, err_bad_type, 0)
    ELSE IF p.data = NULL THEN SizeOnly(pi, bytes)
    ELSE IF p.data_size >= bytes THEN
        IF p.data_type = OSSL_PARAM_UNSIGNED_INTEGER THEN
            IF BN_bn2nativepad(b, p.data_size).ret < 0
            THEN Failed(pi, CRYPTO_R_INTEGER_OVERFLOW, 0)
            ELSE Stored(pi, p.data_size, BN_bn2nativepad(b, p.data_size).to)
        ELSE IF p.data_type = OSSL_PARAM_INTEGER THEN
            IF BN_signed_bn2native(b, p.data_size).ret < 0
            THEN Failed(pi, CRYPTO_R_INTEGER_OVERFLOW, 0)
            ELSE Stored(pi, p.data_size, BN_signed_bn2native(b, p.data_size).to)
        ELSE Failed(pi, err_bad_type, 0)
    ELSE Failed(pi, err_too_small, bytes)

-----------------------------------------------------------------------------
(* Strings and octet strings.  A string is its bytes without the NUL; an   *)
(* argument that may be absent is << >> when absent and <<x>> otherwise.   *)

RECURSIVE OPENSSL_strnlen(_, _)
\* The length of the string at str, looking at no more than maxlen bytes
OPENSSL_strnlen(str, maxlen) ==
    IF maxlen = 0 \/ str = << >> THEN 0
    ELSE IF Head(str) = 0 THEN 0
    ELSE 1 + OPENSSL_strnlen(Tail(str), maxlen - 1)

\* strlen of a string argument
strlen(val) == Len(val)

\* memcpy(dst, src, n) on a buffer dst of at least n bytes
memcpy(dst, src, n) == SubSeq(src, 1, n) \o SubSeq(dst, n + 1, Len(dst))

CRYPTO_R_NO_SPACE_FOR_TERMINATING_NULL == "NO_SPACE_FOR_TERMINATING_NULL"

\* What a get of a string hands back: *used_len when it was written, the
\* destination *val after the call (<< >> when there is none) and its
\* capacity max_len after the call.
StrOut(used, dst, max_len) == [used |-> used, dst |-> dst, max_len |-> max_len]

\* get_string_internal taking the length of what was last stored
get_string_internal_stored(pi, val, max_len, used_len, type, alloc) ==
    IF (val = "none" /\ ~used_len) \/ pi = NULL
    THEN Result(0, <<err_null_argument>>, RSize(pi), Buf(pi),
                <<StrOut(<< >>, << >>, max_len)>>)
    ELSE LET p        == params[pi]
             sz       == IF p.return_size \in 0 .. p.data_size
                         THEN p.return_size ELSE p.data_size
             alloc_sz == sz + (IF type = OSSL_PARAM_UTF8_STRING \/ sz = 0
                               THEN 1 ELSE 0)
             used     == IF used_len THEN <<sz>> ELSE << >>
             cap      == IF val = "alloc" THEN alloc_sz ELSE max_len
             given    == IF val = "alloc" THEN Untouched(alloc_sz)
                         ELSE Untouched(max_len)
         IN
    IF p.data_type # type
    THEN Result(0, <<err_bad_type>>, RSize(pi), Buf(pi),
                <<StrOut(<< >>, << >>, max_len)>>)
    ELSE IF p.data = NULL
    THEN Result(0, <<err_null_argument>>, RSize(pi), Buf(pi),
                <<StrOut(used, << >>, max_len)>>)
    ELSE IF val = "none"
    THEN Result(1, << >>, RSize(pi), Buf(pi), <<StrOut(used, << >>, max_len)>>)
    ELSE IF val = "alloc" /\ ~alloc
    THEN Result(0, << >>, RSize(pi), Buf(pi), <<StrOut(used, << >>, max_len)>>)
    ELSE IF cap < sz
    THEN Result(0, <<err_too_small>>, RSize(pi), Buf(pi),
                <<StrOut(used, given, cap)>>)
    ELSE Result(1, << >>, RSize(pi), Buf(pi),
                <<StrOut(used, memcpy(given, Buf(pi), sz), cap)>>)

\* val:      "none" (val is NULL), "alloc" (*val is NULL) or "buf" (*val is
\*           a buffer of max_len bytes owned by the caller)
\* used_len: whether the used_len argument is present
\* alloc:    whether OPENSSL_malloc succeeds
get_string_internal(pi, val, max_len, used_len, type, alloc) ==
    IF (val = "none" /\ ~used_len) \/ pi = NULL
    THEN Result(0, <<err_null_argument>>, RSize(pi), Buf(pi),
                <<StrOut(<< >>, << >>, max_len)>>)
    ELSE LET p        == params[pi]
             sz       == p.data_size
             alloc_sz == sz + (IF type = OSSL_PARAM_UTF8_STRING \/ sz = 0
                               THEN 1 ELSE 0)
             used     == IF used_len THEN <<sz>> ELSE << >>
             cap      == IF val = "alloc" THEN alloc_sz ELSE max_len
             given    == IF val = "alloc" THEN Untouched(alloc_sz)
                         ELSE Untouched(max_len)
         IN
    IF p.data_type # type
    THEN Result(0, <<err_bad_type>>, RSize(pi), Buf(pi),
                <<StrOut(<< >>, << >>, max_len)>>)
    ELSE IF p.data = NULL
    THEN Result(0, <<err_null_argument>>, RSize(pi), Buf(pi),
                <<StrOut(used, << >>, max_len)>>)
    ELSE IF val = "none"
    THEN Result(1, << >>, RSize(pi), Buf(pi), <<StrOut(used, << >>, max_len)>>)
    ELSE IF val = "alloc" /\ ~alloc
    THEN Result(0, << >>, RSize(pi), Buf(pi), <<StrOut(used, << >>, max_len)>>)
    ELSE IF cap < sz
    THEN Result(0, <<err_too_small>>, RSize(pi), Buf(pi),
                <<StrOut(used, given, cap)>>)
    ELSE Result(1, << >>, RSize(pi), Buf(pi),
                <<StrOut(used, memcpy(given, Buf(pi), sz), cap)>>)

\* OSSL_PARAM_get_utf8_string without the byte that ends the string
OSSL_PARAM_get_utf8_string_unterminated(pi, val, max_len, alloc) ==
    LET r == get_string_internal(pi, val, max_len, FALSE, OSSL_PARAM_UTF8_STRING,
                                 alloc)
    IN  IF pi = NULL THEN [r EXCEPT !.fault = TRUE] ELSE r

OSSL_PARAM_get_utf8_string(pi, val, max_len, alloc) ==
    LET r   == get_string_internal(pi, val, max_len, FALSE, OSSL_PARAM_UTF8_STRING,
                                   alloc)
        o   == r.out[1]
    IN  \* p->data_size is read before ret is looked at
        IF pi = NULL THEN [r EXCEPT !.fault = TRUE]
        ELSE IF r.ret = 0 THEN r
        ELSE LET data_length ==
                   IF params[pi].data_size >= o.max_len
                   THEN OPENSSL_strnlen(Buf(pi), params[pi].data_size)
                   ELSE params[pi].data_size
             IN  IF data_length >= o.max_len
                 THEN [r EXCEPT !.ret = 0,
                                !.errs = <<CRYPTO_R_NO_SPACE_FOR_TERMINATING_NULL>>]
                 ELSE [r EXCEPT !.out =
                          <<[o EXCEPT !.dst = [o.dst EXCEPT ![data_length + 1] = 0]]>>]

\* OSSL_PARAM_get_octet_string recording in return_size what it read
OSSL_PARAM_get_octet_string_marking(pi, val, max_len, used_len, alloc) ==
    LET r == get_string_internal(pi, val, max_len, used_len,
                                 OSSL_PARAM_OCTET_STRING, alloc)
    IN  IF pi = NULL THEN r ELSE [r EXCEPT !.rs = params[pi].data_size]

OSSL_PARAM_get_octet_string(pi, val, max_len, used_len, alloc) ==
    get_string_internal(pi, val, max_len, used_len, OSSL_PARAM_OCTET_STRING, alloc)

\* set_string_internal copying what fits before it finds the buffer too small
set_string_internal_partial(pi, val, len, type) ==
    LET p == params[pi]
    IN  IF p.data_type # type THEN Failed(pi, err_bad_type, 0)
        ELSE IF p.data = NULL THEN SizeOnly(pi, len)
        ELSE IF p.data_size < len
        THEN Result(0, <<err_too_small>>, len,
                    memcpy(Buf(pi), val, p.data_size), << >>)
        ELSE IF type = OSSL_PARAM_UTF8_STRING /\ p.data_size > len
        THEN Stored(pi, len, [memcpy(Buf(pi), val, len) EXCEPT ![len + 1] = 0])
        ELSE Stored(pi, len, memcpy(Buf(pi), val, len))

\* val: the bytes to store, len of them
set_string_internal(pi, val, len, type) ==
    LET p == params[pi]
    IN  IF p.data_type # type THEN Failed(pi, err_bad_type, 0)
        ELSE IF p.data = NULL THEN SizeOnly(pi, len)
        ELSE IF p.data_size < len THEN Failed(pi, err_too_small, len)
        ELSE IF type = OSSL_PARAM_UTF8_STRING /\ p.data_size > len
        THEN Stored(pi, len, [memcpy(Buf(pi), val, len) EXCEPT ![len + 1] = 0])
        ELSE Stored(pi, len, memcpy(Buf(pi), val, len))

OSSL_PARAM_set_utf8_string(pi, val) ==
    IF pi = NULL \/ val = << >> THEN Failed(pi, err_null_argument, RSize(pi))
    ELSE set_string_internal(pi, val[1], strlen(val[1]), OSSL_PARAM_UTF8_STRING)

OSSL_PARAM_set_octet_string(pi, val, len) ==
    IF pi = NULL \/ val = << >> THEN Failed(pi, err_null_argument, RSize(pi))
    ELSE set_string_internal(pi, val[1], len, OSSL_PARAM_OCTET_STRING)

-----------------------------------------------------------------------------
(* The pointer variants.  The buffer of a UTF8_PTR or OCTET_PTR descriptor *)
(* holds a reference; a reference is NULL or names a referent.             *)

Refs == {1, 2}

\* The bytes a reference refers to
Referent(ref) == IF ref = 1 THEN <<97>> ELSE <<97, 98>>

\* What a get of a reference hands back: *used_len when it was written, *val
PtrOut(used, ptr) == [used |-> used, ptr |-> ptr]

get_ptr_internal_skip_checks(pi, used_len) ==
    LET used == IF used_len THEN <<params[pi].data_size>> ELSE << >>
    IN  IF params[pi].data = NULL
        THEN [ret |-> 0, errs |-> << >>, rs |-> RSize(pi), data |-> Buf(pi),
              out |-> <<PtrOut(used, NULL)>>, fault |-> TRUE]
        ELSE Result(1, << >>, RSize(pi), Buf(pi), <<PtrOut(used, Buf(pi))>>)

get_ptr_internal(pi, val, used_len, type) ==
    IF val = NULL \/ pi = NULL THEN Failed(pi, err_null_argument, RSize(pi))
    ELSE IF params[pi].data_type # type THEN Failed(pi, err_bad_type, RSize(pi))
    ELSE get_ptr_internal_skip_checks(pi, used_len)

OSSL_PARAM_get_utf8_ptr(pi, val) ==
    get_ptr_internal(pi, val, FALSE, OSSL_PARAM_UTF8_PTR)

OSSL_PARAM_get_octet_ptr(pi, val, used_len) ==
    get_ptr_internal(pi, val, used_len, OSSL_PARAM_OCTET_PTR)

\* set_ptr_internal recording the length without storing the reference
set_ptr_internal_sizeonly(pi, val, type, len) ==
    IF params[pi].data_type # type THEN Failed(pi, err_bad_type, 0)
    ELSE SizeOnly(pi, len)

set_ptr_internal(pi, val, type, len) ==
    IF params[pi].data_type # type THEN Failed(pi, err_bad_type, 0)
    ELSE IF params[pi].data # NULL THEN Stored(pi, len, val)
    ELSE SizeOnly(pi, len)

OSSL_PARAM_set_utf8_ptr(pi, val) ==
    IF pi = NULL THEN Failed(pi, err_null_argument, RSize(pi))
    ELSE set_ptr_internal(pi, val, OSSL_PARAM_UTF8_PTR,
                          IF val = NULL THEN 0 ELSE strlen(Referent(val)))

OSSL_PARAM_set_octet_ptr(pi, val, used_len) ==
    IF pi = NULL THEN Failed(pi, err_null_argument, RSize(pi))
    ELSE set_ptr_internal(pi, val, OSSL_PARAM_OCTET_PTR, used_len)

get_string_ptr_internal(pi, val, used_len, ref_type, type) ==
    IF val = NULL \/ pi = NULL THEN Failed(pi, err_null_argument, RSize(pi))
    ELSE IF params[pi].data_type = ref_type
    THEN get_ptr_internal_skip_checks(pi, used_len)
    ELSE IF params[pi].data_type # type THEN Failed(pi, err_bad_type, RSize(pi))
    ELSE Result(1, << >>, RSize(pi), Buf(pi),
                <<PtrOut(IF used_len THEN <<params[pi].data_size>> ELSE << >>,
                         params[pi].data)>>)

OSSL_PARAM_get_utf8_string_ptr(pi, val) ==
    get_string_ptr_internal(pi, val, FALSE, OSSL_PARAM_UTF8_PTR,
                            OSSL_PARAM_UTF8_STRING)

OSSL_PARAM_get_octet_string_ptr(pi, val, used_len) ==
    get_string_ptr_internal(pi, val, used_len, OSSL_PARAM_OCTET_PTR,
                            OSSL_PARAM_OCTET_STRING)

\* val: a reference to the octets, len of them
OSSL_PARAM_set_octet_string_or_ptr(pi, val, len) ==
    IF pi = NULL THEN Failed(pi, err_null_argument, RSize(pi))
    ELSE IF params[pi].data_type = OSSL_PARAM_OCTET_STRING
    THEN OSSL_PARAM_set_octet_string(
             pi, IF val = NULL THEN << >> ELSE <<Referent(val)>>, len)
    ELSE IF params[pi].data_type = OSSL_PARAM_OCTET_PTR
    THEN OSSL_PARAM_set_octet_ptr(pi, val, len)
    ELSE Failed(pi, err_bad_type, RSize(pi))

-----------------------------------------------------------------------------
(* The accessors on a descriptor.  The array is one descriptor and the     *)
(* terminator; the descriptor's buffer, when it has one, is mem[1].  The   *)
(* setters are tried on the fresh descriptor, the getters on it and after  *)
(* a setter, so a behaviour is a set, a get, or a set followed by a get.   *)

\* The widths a descriptor of each type is given
DataSizes(data_type) ==
    IF data_type \in {OSSL_PARAM_INTEGER, OSSL_PARAM_UNSIGNED_INTEGER}
    THEN Widths
    ELSE IF data_type = OSSL_PARAM_REAL THEN {SizeofInt32, SizeofDouble}
    ELSE IF data_type \in {OSSL_PARAM_UTF8_STRING, OSSL_PARAM_OCTET_STRING}
    THEN 0 .. MaxLen
    ELSE {0, MaxLen}

\* A reference that no call stores
UntouchedRef == Cardinality(Refs) + 1

\* What the buffer of a fresh descriptor holds
Fresh(data_type, data_size) ==
    IF data_type = OSSL_PARAM_REAL THEN UntouchedDouble
    ELSE IF data_type \in {OSSL_PARAM_UTF8_PTR, OSSL_PARAM_OCTET_PTR}
    THEN UntouchedRef
    ELSE Untouched(data_size)

Init ==
    /\ IS_BIG_ENDIAN \in BOOLEAN
    /\ \E data_type \in DataTypes, data \in {NULL, 1} :
         \E data_size \in DataSizes(data_type) :
            /\ params = <<ossl_param_construct(<<<<107>>>>, data_type, data,
                                               data_size),
                          OSSL_PARAM_END>>
            /\ mem = <<Fresh(data_type, data_size)>>
    /\ last = NoCall

\* The descriptor handed to a call: absent, or the first of the array
Descriptors == {NULL, 1}
\* An output argument: absent or present
OutArgs == {NULL, 1}

\* The values given to the setters
Doubles ==
    { Double(FALSE, Zero64, FALSE), Double(FALSE, One64, FALSE),
      Double(TRUE, One64, FALSE), Double(FALSE, One64, TRUE),
      Double(TRUE, Zero64, TRUE), Double(FALSE, Pow31, FALSE),
      Double(TRUE, Pow31, FALSE), Double(FALSE, Pow32, FALSE),
      Double(FALSE, Pow53Less1, FALSE), Double(FALSE, Pow53, FALSE),
      Double(FALSE, INT64_MIN, FALSE), Double(TRUE, INT64_MIN, FALSE) }

BigNums ==
    { BigNum(FALSE, << >>), BigNum(FALSE, <<5>>), BigNum(TRUE, <<5>>),
      BigNum(FALSE, <<128>>), BigNum(TRUE, <<128>>), BigNum(TRUE, <<129>>),
      BigNum(FALSE, <<0, 1>>), BigNum(FALSE, <<255, 255>>),
      BigNum(FALSE, <<0, 0, 1>>) }

\* Strings of up to MaxLen + 1 characters, octets of up to MaxLen + 1 bytes
Strings == UNION { [1 .. n -> {97, 98}] : n \in 0 .. MaxLen + 1 }
Octets  == UNION { [1 .. n -> {0, 97}] : n \in 0 .. MaxLen + 1 }

\* The values given to the setters that only pass on to a fixed-width one
AliasValues == {Zero64, MinusOne64, Pow31, Pow32, INT64_MIN}

\* The outcomes of -val to try for a given val
Overflows(v) == IF v = INT64_MIN THEN NegOverflow ELSE {"wrap"}

\* The state after a call on descriptor pi with result r.  A call without a
\* descriptor neither reads nor changes one: it is tried once, at the start.
Do(op, pi, arg, r) ==
    /\ pi = NULL => last = NoCall
    /\ last' = [op |-> op, p |-> pi, arg |-> arg, ret |-> r.ret,
                errs |-> r.errs, out |-> r.out, fault |-> r.fault]
    /\ params' = IF pi = NULL THEN params
                 ELSE [params EXCEPT ![pi].return_size = r.rs]
    /\ mem' = IF pi = NULL THEN mem
              ELSE IF params[pi].data = NULL THEN mem
              ELSE [mem EXCEPT ![params[pi].data] = r.data]
    /\ UNCHANGED IS_BIG_ENDIAN

\* A setter is tried on the fresh descriptor
DoSet(op, pi, arg, r) == last = NoCall /\ Do(op, pi, arg, r)

GetOps ==
    { "get_int32", "get_uint32", "get_int64", "get_uint64", "get_int",
      "get_uint", "get_long", "get_ulong", "get_size_t", "get_time_t",
      "get_double", "get_BN", "get_utf8_string", "get_octet_string",
      "get_utf8_ptr", "get_octet_ptr", "get_utf8_string_ptr",
      "get_octet_string_ptr" }

\* A getter is tried on the fresh descriptor and after a setter that was
\* given it; a getter leaves the descriptor as it found it, so one get after
\* another sees nothing new
DoGet(op, pi, arg, r) ==
    /\ last = NoCall \/ (last.op \notin GetOps /\ last.p # NULL)
    /\ Do(op, pi, arg, r)

SetInt32 ==
    \E pi \in Descriptors, v \in Values32 :
        DoSet("set_int32", pi, [val |-> v], OSSL_PARAM_set_int32(pi, v))

SetUint32 ==
    \E pi \in Descriptors, v \in Values32 :
        DoSet("set_uint32", pi, [val |-> v], OSSL_PARAM_set_uint32(pi, v))

SetInt64 ==
    \E pi \in Descriptors, v \in Values64 : \E ub \in Overflows(v) :
        DoSet("set_int64", pi, [val |-> v, ub |-> ub],
              OSSL_PARAM_set_int64(pi, v, ub))

SetUint64 ==
    \E pi \in Descriptors, v \in Values64 :
        DoSet("set_uint64", pi, [val |-> v], OSSL_PARAM_set_uint64(pi, v))

SetInt ==
    \E pi \in Descriptors, v \in Values32 :
        DoSet("set_int", pi, [val |-> v], OSSL_PARAM_set_int(pi, v, "wrap"))

SetUint ==
    \E pi \in Descriptors, v \in Values32 :
        DoSet("set_uint", pi, [val |-> v], OSSL_PARAM_set_uint(pi, v))

SetLong ==
    \E pi \in Descriptors, v \in AliasValues : \E ub \in Overflows(v) :
        DoSet("set_long", pi, [val |-> v, ub |-> ub],
              OSSL_PARAM_set_long(pi, v, ub))

SetUlong ==
    \E pi \in Descriptors, v \in AliasValues :
        DoSet("set_ulong", pi, [val |-> v], OSSL_PARAM_set_ulong(pi, v))

SetSizeT ==
    \E pi \in Descriptors, v \in AliasValues :
        DoSet("set_size_t", pi, [val |-> v], OSSL_PARAM_set_size_t(pi, v))

SetTimeT ==
    \E pi \in Descriptors, v \in AliasValues : \E ub \in Overflows(v) :
        DoSet("set_time_t", pi, [val |-> v, ub |-> ub],
              OSSL_PARAM_set_time_t(pi, v, ub))

SetDouble ==
    \E pi \in Descriptors, v \in Doubles :
        DoSet("set_double", pi, [val |-> v], OSSL_PARAM_set_double(pi, v))

SetBN ==
    \E pi \in Descriptors, v \in {<< >>} \cup { <<b>> : b \in BigNums } :
        DoSet("set_BN", pi, [val |-> v], OSSL_PARAM_set_BN(pi, v))

SetUtf8String ==
    \E pi \in Descriptors, v \in {<< >>} \cup { <<s>> : s \in Strings } :
        DoSet("set_utf8_string", pi, [val |-> v],
              OSSL_PARAM_set_utf8_string(pi, v))

SetOctetString ==
    \E pi \in Descriptors, v \in {<< >>} \cup { <<s>> : s \in Octets } :
        LET len == IF v = << >> THEN 0 ELSE Len(v[1])
        IN  DoSet("set_octet_string", pi, [val |-> v, len |-> len],
                  OSSL_PARAM_set_octet_string(pi, v, len))

SetUtf8Ptr ==
    \E pi \in Descriptors, v \in {NULL} \cup Refs :
        DoSet("set_utf8_ptr", pi, [val |-> v], OSSL_PARAM_set_utf8_ptr(pi, v))

SetOctetPtr ==
    \E pi \in Descriptors, v \in {NULL} \cup Refs, used_len \in 0 .. MaxLen :
        DoSet("set_octet_ptr", pi, [val |-> v, len |-> used_len],
              OSSL_PARAM_set_octet_ptr(pi, v, used_len))

SetOctetStringOrPtr ==
    \E pi \in Descriptors, v \in {NULL} \cup Refs :
        LET len == IF v = NULL THEN 0 ELSE Len(Referent(v))
        IN  DoSet("set_octet_string_or_ptr", pi, [val |-> v, len |-> len],
                  OSSL_PARAM_set_octet_string_or_ptr(pi, v, len))

GetInt32 ==
    \E pi \in Descriptors, val \in OutArgs :
        DoGet("get_int32", pi, [val |-> val], OSSL_PARAM_get_int32(pi, val))

GetUint32 ==
    \E pi \in Descriptors, val \in OutArgs :
        DoGet("get_uint32", pi, [val |-> val], OSSL_PARAM_get_uint32(pi, val))

GetInt64 ==
    \E pi \in Descriptors, val \in OutArgs :
        DoGet("get_int64", pi, [val |-> val], OSSL_PARAM_get_int64(pi, val))

GetUint64 ==
    \E pi \in Descriptors, val \in OutArgs :
        DoGet("get_uint64", pi, [val |-> val], OSSL_PARAM_get_uint64(pi, val))

GetInt ==
    \E pi \in Descriptors, val \in OutArgs :
        DoGet("get_int", pi, [val |-> val], OSSL_PARAM_get_int(pi, val))

GetUint ==
    \E pi \in Descriptors, val \in OutArgs :
        DoGet("get_uint", pi, [val |-> val], OSSL_PARAM_get_uint(pi, val))

GetLong ==
    \E pi \in Descriptors, val \in OutArgs :
        DoGet("get_long", pi, [val |-> val], OSSL_PARAM_get_long(pi, val))

GetUlong ==
    \E pi \in Descriptors, val \in OutArgs :
        DoGet("get_ulong", pi, [val |-> val], OSSL_PARAM_get_ulong(pi, val))

GetSizeT ==
    \E pi \in Descriptors, val \in OutArgs :
        DoGet("get_size_t", pi, [val |-> val], OSSL_PARAM_get_size_t(pi, val))

GetTimeT ==
    \E pi \in Descriptors, val \in OutArgs :
        DoGet("get_time_t", pi, [val |-> val], OSSL_PARAM_get_time_t(pi, val))

GetDouble ==
    \E pi \in Descriptors, val \in OutArgs, ub \in NegOverflow :
        DoGet("get_double", pi, [val |-> val, ub |-> ub],
              OSSL_PARAM_get_double(pi, val, ub))

GetBN ==
    \E pi \in Descriptors, val \in OutArgs, alloc \in BOOLEAN :
        DoGet("get_BN", pi, [val |-> val, alloc |-> alloc],
              OSSL_PARAM_get_BN(pi, val, alloc))

\* The ways a destination is handed to a get of a string: none, one to be
\* allocated (the allocation succeeding or not), a buffer of max_len bytes
StringDests ==
    {[val |-> "none", max_len |-> 0, alloc |-> TRUE]}
        \cup {[val |-> "alloc", max_len |-> 0, alloc |-> a] : a \in BOOLEAN}
        \cup {[val |-> "buf", max_len |-> n, alloc |-> TRUE] :
                  n \in 0 .. MaxLen + 1}

GetUtf8String ==
    \E pi \in Descriptors, d \in StringDests :
        DoGet("get_utf8_string", pi, d,
              OSSL_PARAM_get_utf8_string(pi, d.val, d.max_len, d.alloc))

GetOctetString ==
    \E pi \in Descriptors, d \in StringDests, used_len \in BOOLEAN :
        DoGet("get_octet_string", pi,
              [val |-> d.val, max_len |-> d.max_len, alloc |-> d.alloc,
            used_len |-> used_len],
              OSSL_PARAM_get_octet_string(pi, d.val, d.max_len, used_len,
                                       d.alloc))

GetUtf8Ptr ==
    \E pi \in Descriptors, val \in OutArgs :
        DoGet("get_utf8_ptr", pi, [val |-> val],
              OSSL_PARAM_get_utf8_ptr(pi, val))

GetOctetPtr ==
    \E pi \in Descriptors, val \in OutArgs, used_len \in BOOLEAN :
        DoGet("get_octet_ptr", pi, [val |-> val, used_len |-> used_len],
              OSSL_PARAM_get_octet_ptr(pi, val, used_len))

GetUtf8StringPtr ==
    \E pi \in Descriptors, val \in OutArgs :
        DoGet("get_utf8_string_ptr", pi, [val |-> val],
              OSSL_PARAM_get_utf8_string_ptr(pi, val))

GetOctetStringPtr ==
    \E pi \in Descriptors, val \in OutArgs, used_len \in BOOLEAN :
        DoGet("get_octet_string_ptr", pi, [val |-> val, used_len |-> used_len],
              OSSL_PARAM_get_octet_string_ptr(pi, val, used_len))

Next ==
    \/ SetInt32 \/ SetUint32 \/ SetInt64 \/ SetUint64
    \/ SetInt \/ SetUint \/ SetLong \/ SetUlong \/ SetSizeT \/ SetTimeT
    \/ SetDouble \/ SetBN
    \/ SetUtf8String \/ SetOctetString
    \/ SetUtf8Ptr \/ SetOctetPtr \/ SetOctetStringOrPtr
    \/ GetInt32 \/ GetUint32 \/ GetInt64 \/ GetUint64
    \/ GetInt \/ GetUint \/ GetLong \/ GetUlong \/ GetSizeT \/ GetTimeT
    \/ GetDouble \/ GetBN
    \/ GetUtf8String \/ GetOctetString
    \/ GetUtf8Ptr \/ GetOctetPtr \/ GetUtf8StringPtr \/ GetOctetStringPtr

Spec == Init /\ [][Next]_vars

-----------------------------------------------------------------------------
(* Looking a key up in an array.  The array is the entries up to the first *)
(* one without a key; what lies behind that one is memory like any other.  *)

RECURSIVE strcmp(_, _)
\* The sign of the first difference between two strings, 0 when there is none
strcmp(s1, s2) ==
    IF s1 = << >> /\ s2 = << >> THEN 0
    ELSE IF s1 = << >> THEN -1
    ELSE IF s2 = << >> THEN 1
    ELSE IF Head(s1) < Head(s2) THEN -1
    ELSE IF Head(s1) > Head(s2) THEN 1
    ELSE strcmp(Tail(s1), Tail(s2))

\* What a lookup hands back: the entry found (NULL: none), the entries whose
\* key field it read and those whose key it compared
Located(found, read, compared) ==
    [found |-> found, read |-> read, compared |-> compared]

RECURSIVE locate_last_from(_, _, _)
\* A lookup that goes on after a match and keeps the last one
locate_last_from(p, key, found) ==
    IF params[p].key = << >> THEN Located(found, {p}, {})
    ELSE LET r == locate_last_from(p + 1, key,
                      IF strcmp(key[1], params[p].key[1]) = 0 THEN p
                      ELSE found)
         IN  Located(r.found, r.read \cup {p}, r.compared \cup {p})

OSSL_PARAM_locate_last(p, key) ==
    IF p # NULL /\ key # << >> THEN locate_last_from(p, key, NULL)
    ELSE Located(NULL, {}, {})

RECURSIVE locate_from(_, _)
\* for (; p->key != NULL; p++) if (strcmp(key, p->key) == 0) return p;
locate_from(p, key) ==
    IF params[p].key = << >> THEN Located(NULL, {p}, {})
    ELSE IF strcmp(key[1], params[p].key[1]) = 0 THEN Located(p, {p}, {p})
    ELSE LET r == locate_from(p + 1, key)
         IN  Located(r.found, r.read \cup {p}, r.compared \cup {p})

OSSL_PARAM_locate(p, key) ==
    IF p # NULL /\ key # << >> THEN locate_from(p, key)
    ELSE Located(NULL, {}, {})

OSSL_PARAM_locate_const(p, key) == OSSL_PARAM_locate(p, key)

\* The keys looked up and given to entries: "k", "K", "kk"
Keys == {<<107>>, <<75>>, <<107, 107>>}

\* An entry with the key k (absent: an entry that ends an array)
Entry(k) ==
    IF k = << >> THEN OSSL_PARAM_END
    ELSE ossl_param_construct(k, OSSL_PARAM_INTEGER, NULL, 0)

\* Memory holding an array: up to MaxParams entries, one that ends the array
\* among them or behind them
Arrays ==
    { a \in UNION { [1 .. n -> { Entry(k) : k \in {<< >>} \cup
                                                   { <<s>> : s \in Keys } }] :
                        n \in 1 .. MaxParams + 1 } :
        \E i \in 1 .. Len(a) : a[i].key = << >> }

InitLocate ==
    /\ IS_BIG_ENDIAN = FALSE
    /\ params \in Arrays
    /\ mem = << >>
    /\ last = NoCall

DoLocate(op, p, key, r) ==
    /\ last = NoCall
    /\ last' = [op |-> op, p |-> p, arg |-> [key |-> key], ret |-> r.found,
                errs |-> << >>,
                out |-> <<[read |-> r.read, compared |-> r.compared]>>,
                fault |-> FALSE]
    /\ UNCHANGED <<IS_BIG_ENDIAN, params, mem>>

Locate ==
    \E p \in {NULL, 1}, key \in {<< >>} \cup { <<s>> : s \in Keys } :
        DoLocate("locate", p, key, OSSL_PARAM_locate(p, key))

LocateConst ==
    \E p \in {NULL, 1}, key \in {<< >>} \cup { <<s>> : s \in Keys } :
        DoLocate("locate_const", p, key, OSSL_PARAM_locate_const(p, key))

NextLocate == Locate \/ LocateConst

SpecLocate == InitLocate /\ [][NextLocate]_vars

-----------------------------------------------------------------------------
(* Marking an array unmodified and asking whether an entry was modified.   *)
(* The array is two descriptors and the entry that ends it; one more entry *)
(* lies behind that one.  Setters, resets and queries follow one another   *)
(* in any order.                                                           *)

\* p != NULL && p->return_size != OSSL_PARAM_UNMODIFIED
OSSL_PARAM_modified(p) ==
    p # NULL /\ params[p].return_size # OSSL_PARAM_UNMODIFIED

RECURSIVE unmodify_through(_, _)
\* A reset that marks the entry that ends the array as well
unmodify_through(arr, p) ==
    IF arr[p].key = << >>
    THEN [arr EXCEPT ![p].return_size = OSSL_PARAM_UNMODIFIED]
    ELSE unmodify_through([arr EXCEPT ![p].return_size = OSSL_PARAM_UNMODIFIED],
                          p + 1)

OSSL_PARAM_set_all_unmodified_through(p) ==
    IF p # NULL THEN unmodify_through(params, p) ELSE params

RECURSIVE unmodify_from(_, _)
\* while (p->key != NULL) p++->return_size = OSSL_PARAM_UNMODIFIED;
unmodify_from(arr, p) ==
    IF arr[p].key = << >> THEN arr
    ELSE unmodify_from([arr EXCEPT ![p].return_size = OSSL_PARAM_UNMODIFIED],
                       p + 1)

\* The array after the call
OSSL_PARAM_set_all_unmodified(p) ==
    IF p # NULL THEN unmodify_from(params, p) ELSE params

\* The descriptors an array is made of: (data_type, data_size, data present)
SeqFirst ==
    { <<OSSL_PARAM_INTEGER, SizeofInt32, TRUE>>,
      <<OSSL_PARAM_UNSIGNED_INTEGER, SizeofInt32, TRUE>>,
      <<OSSL_PARAM_UTF8_STRING, 1, TRUE>> }
SeqSecond ==
    { <<OSSL_PARAM_INTEGER, SizeofInt32, FALSE>>,
      <<OSSL_PARAM_UTF8_STRING, 1, TRUE>> }

\* The descriptor number i of the memory, built from such a triple
SeqEntry(i, d) ==
    ossl_param_construct(<<(<<107, 48 + i>>)>>, d[1],
                         IF d[3] THEN i ELSE NULL, d[2])

InitSeq ==
    /\ IS_BIG_ENDIAN = FALSE
    /\ \E d1 \in SeqFirst, d2 \in SeqSecond :
         /\ params = << SeqEntry(1, d1), SeqEntry(2, d2), OSSL_PARAM_END,
                        [SeqEntry(4, d1) EXCEPT !.return_size = 0] >>
         /\ mem = << Fresh(d1[1], d1[2]), Fresh(d2[1], d2[2]), << >>,
                     Fresh(d1[1], d1[2]) >>
    /\ last = NoCall

\* The descriptors of the array
SeqDescriptors == {1, 2}

SeqSetInt32 ==
    \E pi \in SeqDescriptors, v \in {Truncate(One64, 4), Truncate(MinusOne64, 4)} :
        Do("set_int32", pi, [val |-> v], OSSL_PARAM_set_int32(pi, v))

SeqSetUtf8String ==
    \E pi \in SeqDescriptors, v \in {<<(<<97>>)>>, <<(<<97, 98>>)>>} :
        Do("set_utf8_string", pi, [val |-> v], OSSL_PARAM_set_utf8_string(pi, v))

SeqSetAllUnmodified ==
    \E p \in {NULL, 1} :
        /\ p = NULL => last = NoCall
        /\ params' = OSSL_PARAM_set_all_unmodified(p)
        /\ last' = [op |-> "set_all_unmodified", p |-> p, arg |-> << >>,
                    ret |-> 1, errs |-> << >>, out |-> << >>, fault |-> FALSE]
        /\ UNCHANGED <<IS_BIG_ENDIAN, mem>>

SeqModified ==
    \E p \in {NULL} \cup SeqDescriptors :
        /\ p = NULL => last = NoCall
        /\ last' = [op |-> "modified", p |-> p, arg |-> << >>,
                    ret |-> IF OSSL_PARAM_modified(p) THEN 1 ELSE 0,
                    errs |-> << >>, out |-> << >>, fault |-> FALSE]
        /\ UNCHANGED <<IS_BIG_ENDIAN, params, mem>>

NextSeq ==
    SeqSetInt32 \/ SeqSetUtf8String \/ SeqSetAllUnmodified \/ SeqModified

SpecSeq == InitSeq /\ [][NextSeq]_vars

-----------------------------------------------------------------------------
(* The helpers that hand the caller a buffer of its own.  The caller's     *)
(* *out is a pointer: null, the buffer of an earlier call ("prev") or one  *)
(* allocated by this call ("new"), with the bytes it points to.  A call    *)
(* gives back *out and *out_len as they are after it, the sizes of the     *)
(* allocations it made and the buffers it cleared and freed.               *)

Ptr(ptr, bytes) == [ptr |-> ptr, bytes |-> bytes]
NullPtr         == Ptr("null", << >>)

Agg(ret, errs, out, out_len, allocs, frees) ==
    [ret |-> ret, errs |-> errs,
     out |-> <<[out |-> out, out_len |-> out_len, allocs |-> allocs,
                frees |-> frees]>>]

\* Freeing a null pointer frees nothing
OPENSSL_clear_free(ptr) == IF ptr.ptr = "null" THEN << >> ELSE <<ptr.ptr>>

\* ossl_param_get1_octet_string_from_param looking at data_type first
ossl_param_get1_octet_string_from_param_typed(pi, prev, alloc) ==
    IF pi = NULL THEN Agg(-1, << >>, prev.out, prev.out_len, << >>, << >>)
    ELSE LET p    == params[pi]
             copy == p.data # NULL /\ p.data_size > 0
             r    == OSSL_PARAM_get_octet_string(pi, "alloc", 0, TRUE, alloc)
         IN  IF p.data_type # OSSL_PARAM_OCTET_STRING
             THEN Agg(0, <<err_bad_type>>, prev.out, prev.out_len, << >>, << >>)
             ELSE IF copy /\ r.ret = 0
             THEN Agg(0, r.errs, prev.out, prev.out_len, << >>, << >>)
             ELSE IF copy
             THEN Agg(1, << >>, Ptr("new", r.out[1].dst), r.out[1].used[1],
                      <<r.out[1].max_len>>, OPENSSL_clear_free(prev.out))
             ELSE Agg(1, << >>, NullPtr, 0, << >>, OPENSSL_clear_free(prev.out))

\* ossl_param_get1_octet_string_from_param releasing the previous buffer
\* before it knows that the copy succeeds
ossl_param_get1_octet_string_from_param_eager(pi, prev, alloc) ==
    IF pi = NULL THEN Agg(-1, << >>, prev.out, prev.out_len, << >>, << >>)
    ELSE LET p    == params[pi]
             copy == p.data # NULL /\ p.data_size > 0
             r    == OSSL_PARAM_get_octet_string(pi, "alloc", 0, TRUE, alloc)
         IN  IF copy /\ r.ret = 0
             THEN Agg(0, r.errs, NullPtr, 0, << >>, OPENSSL_clear_free(prev.out))
             ELSE IF copy
             THEN Agg(1, << >>, Ptr("new", r.out[1].dst), r.out[1].used[1],
                      <<r.out[1].max_len>>, OPENSSL_clear_free(prev.out))
             ELSE Agg(1, << >>, NullPtr, 0, << >>, OPENSSL_clear_free(prev.out))

\* prev:  *out and *out_len before the call
\* alloc: whether OPENSSL_malloc succeeds
ossl_param_get1_octet_string_from_param(pi, prev, alloc) ==
    IF pi = NULL THEN Agg(-1, << >>, prev.out, prev.out_len, << >>, << >>)
    ELSE LET p    == params[pi]
             copy == p.data # NULL /\ p.data_size > 0
             \* buf = NULL, so that the copy is allocated; max_len = 0
             r    == OSSL_PARAM_get_octet_string(pi, "alloc", 0, TRUE, alloc)
         IN  IF copy /\ r.ret = 0
             THEN Agg(0, r.errs, prev.out, prev.out_len, << >>, << >>)
             ELSE IF copy
             THEN Agg(1, << >>, Ptr("new", r.out[1].dst), r.out[1].used[1],
                      <<r.out[1].max_len>>, OPENSSL_clear_free(prev.out))
             ELSE Agg(1, << >>, NullPtr, 0, << >>, OPENSSL_clear_free(prev.out))

\* p: where the array starts; name: the key looked up
ossl_param_get1_octet_string(p, name, prev, alloc) ==
    ossl_param_get1_octet_string_from_param(
        OSSL_PARAM_locate_const(p, name).found, prev, alloc)

\* A packet writer: one that only counts what is written into it, or one
\* over a buffer of the caller that takes no more than the buffer holds
WPACKET_init_null ==
    [sink |-> TRUE, buf |-> << >>, maxsize |-> 0, written |-> 0]
WPACKET_init_static_len(buf, len) ==
    [sink |-> FALSE, buf |-> buf, maxsize |-> len, written |-> 0]

WPACKET_memcpy(pkt, src, len) ==
    IF len = 0 THEN [ret |-> 1, pkt |-> pkt]
    ELSE IF pkt.sink
    THEN [ret |-> 1, pkt |-> [pkt EXCEPT !.written = @ + len]]
    ELSE IF pkt.maxsize - pkt.written < len THEN [ret |-> 0, pkt |-> pkt]
    ELSE [ret |-> 1,
          pkt |-> [pkt EXCEPT
                      !.written = @ + len,
                      !.buf = SubSeq(pkt.buf, 1, pkt.written)
                                  \o SubSeq(src, 1, len)
                                  \o SubSeq(pkt.buf, pkt.written + len + 1,
                                            Len(pkt.buf))]]

WPACKET_get_total_written(pkt) == pkt.written

RECURSIVE setbuf_loop_untyped(_, _, _, _)
\* The loop of setbuf_fromparams taking descriptors of any type
setbuf_loop_untyped(p, i, n, pkt) ==
    IF i > n THEN [ret |-> 1, pkt |-> pkt]
    ELSE LET d == params[p[i]]
         IN  IF d.data # NULL /\ d.data_size # 0
             THEN LET w == WPACKET_memcpy(pkt, Buf(p[i]), d.data_size)
                  IN  IF w.ret = 0 THEN [ret |-> 0, pkt |-> w.pkt]
                      ELSE setbuf_loop_untyped(p, i + 1, n, w.pkt)
             ELSE setbuf_loop_untyped(p, i + 1, n, pkt)

setbuf_fromparams_untyped(n, p, out, outlen) ==
    LET pkt == IF out = << >> THEN WPACKET_init_null
               ELSE WPACKET_init_static_len(out[1], outlen)
        r   == setbuf_loop_untyped(p, 1, n, pkt)
    IN  IF r.ret = 0 THEN [ret |-> 0, out |-> r.pkt.buf, outlen |-> outlen]
        ELSE [ret |-> 1, out |-> r.pkt.buf,
              outlen |-> WPACKET_get_total_written(r.pkt)]

RECURSIVE setbuf_loop(_, _, _, _)
\* for (i = 0; i < n; i++): the descriptors from the one numbered i on
setbuf_loop(p, i, n, pkt) ==
    IF i > n THEN [ret |-> 1, pkt |-> pkt]
    ELSE LET d == params[p[i]]
         IN  IF d.data_type # OSSL_PARAM_OCTET_STRING
             THEN [ret |-> 0, pkt |-> pkt]
             ELSE IF d.data # NULL /\ d.data_size # 0
             THEN LET w == WPACKET_memcpy(pkt, Buf(p[i]), d.data_size)
                  IN  IF w.ret = 0 THEN [ret |-> 0, pkt |-> w.pkt]
                      ELSE setbuf_loop(p, i + 1, n, w.pkt)
             ELSE setbuf_loop(p, i + 1, n, pkt)

\* p:   the descriptors, n of them
\* out: << >> (NULL) or <<buffer>>, a buffer of outlen bytes
\* The result is the value returned, the buffer and *outlen after the call.
setbuf_fromparams(n, p, out, outlen) ==
    LET pkt == IF out = << >> THEN WPACKET_init_null
               ELSE WPACKET_init_static_len(out[1], outlen)
        r   == setbuf_loop(p, 1, n, pkt)
    IN  IF r.ret = 0 THEN [ret |-> 0, out |-> r.pkt.buf, outlen |-> outlen]
        ELSE [ret |-> 1, out |-> r.pkt.buf,
              outlen |-> WPACKET_get_total_written(r.pkt)]

\* ossl_param_get1_concat_octet_string handing back a null pointer when
\* there is no byte to copy
ossl_param_get1_concat_octet_string_null(n, p, prev, alloc) ==
    IF n = 0 THEN Agg(1, << >>, prev.out, prev.out_len, << >>, << >>)
    ELSE LET r1 == setbuf_fromparams(n, p, << >>, 0)
             sz == r1.outlen
         IN
    IF r1.ret = 0 THEN Agg(0, << >>, prev.out, prev.out_len, << >>, << >>)
    ELSE IF ~alloc THEN Agg(0, << >>, prev.out, prev.out_len, << >>, << >>)
    ELSE IF sz = 0
    THEN Agg(1, << >>, NullPtr, 0, << >>, OPENSSL_clear_free(prev.out))
    ELSE LET r2 == setbuf_fromparams(n, p, <<Untouched(sz)>>, sz)
         IN  IF r2.ret = 0
             THEN Agg(0, << >>, prev.out, prev.out_len, <<sz>>, <<"new">>)
             ELSE Agg(1, << >>, Ptr("new", r2.out), r2.outlen, <<sz>>,
                      OPENSSL_clear_free(prev.out))

\* ossl_param_get1_concat_octet_string storing the new buffer without
\* freeing the one *out held
ossl_param_get1_concat_octet_string_leak(n, p, prev, alloc) ==
    IF n = 0 THEN Agg(1, << >>, prev.out, prev.out_len, << >>, << >>)
    ELSE LET r1 == setbuf_fromparams(n, p, << >>, 0)
             sz == r1.outlen
         IN
    IF r1.ret = 0 THEN Agg(0, << >>, prev.out, prev.out_len, << >>, << >>)
    ELSE IF ~alloc THEN Agg(0, << >>, prev.out, prev.out_len, << >>, << >>)
    ELSE IF sz = 0
    THEN Agg(1, << >>, Ptr("new", <<0>>), 0, <<1>>, << >>)
    ELSE LET r2 == setbuf_fromparams(n, p, <<Untouched(sz)>>, sz)
         IN  IF r2.ret = 0
             THEN Agg(0, << >>, prev.out, prev.out_len, <<sz>>, <<"new">>)
             ELSE Agg(1, << >>, Ptr("new", r2.out), r2.outlen, <<sz>>, << >>)

\* n, p:  the descriptors to concatenate
\* prev:  *out and *out_len before the call
\* alloc: whether OPENSSL_malloc, or OPENSSL_zalloc, succeeds
ossl_param_get1_concat_octet_string(n, p, prev, alloc) ==
    IF n = 0 THEN Agg(1, << >>, prev.out, prev.out_len, << >>, << >>)
    ELSE LET r1 == setbuf_fromparams(n, p, << >>, 0)
             sz == r1.outlen
         IN
    IF r1.ret = 0 THEN Agg(0, << >>, prev.out, prev.out_len, << >>, << >>)
    ELSE IF ~alloc THEN Agg(0, << >>, prev.out, prev.out_len, << >>, << >>)
    ELSE IF sz = 0
    THEN Agg(1, << >>, Ptr("new", <<0>>), 0, <<1>>, OPENSSL_clear_free(prev.out))
    ELSE LET r2 == setbuf_fromparams(n, p, <<Untouched(sz)>>, sz)
         IN  IF r2.ret = 0
             THEN Agg(0, << >>, prev.out, prev.out_len, <<sz>>, <<"new">>)
             ELSE Agg(1, << >>, Ptr("new", r2.out), r2.outlen, <<sz>>,
                      OPENSSL_clear_free(prev.out))

\* The descriptors of an array: (data_type, data_size, data present)
AggDescs ==
    {OSSL_PARAM_OCTET_STRING, OSSL_PARAM_UTF8_STRING} \X (0 .. MaxLen) \X BOOLEAN

\* The descriptor number i of the memory, built from such a triple, with
\* the key "k1", "k2", ...
AggEntry(i, d) ==
    ossl_param_construct(<<(<<107, 48 + i>>)>>, d[1],
                         IF d[3] THEN i ELSE NULL, d[2])

\* The bytes of the buffer number i
AggBytes(i, d) == [j \in 1 .. d[2] |-> 16 * i + j]

InitAgg ==
    /\ IS_BIG_ENDIAN = FALSE
    /\ \E d1 \in AggDescs, d2 \in AggDescs :
         /\ params = << AggEntry(1, d1), AggEntry(2, d2), OSSL_PARAM_END >>
         /\ mem = << AggBytes(1, d1), AggBytes(2, d2), << >> >>
    /\ last = NoCall

\* What *out and *out_len hold before a call: nothing, a length alone, a
\* buffer of an earlier call and its length
PrevOuts ==
    { [out |-> NullPtr, out_len |-> 0],
      [out |-> NullPtr, out_len |-> 2],
      [out |-> Ptr("prev", <<1, 2>>), out_len |-> 2] }

DoAgg(op, p, arg, r) ==
    /\ last = NoCall
    /\ last' = [op |-> op, p |-> p, arg |-> arg, ret |-> r.ret,
                errs |-> r.errs, out |-> r.out, fault |-> FALSE]
    /\ UNCHANGED <<IS_BIG_ENDIAN, params, mem>>

Get1OctetStringFromParam ==
    \E pi \in {NULL, 1, 2}, prev \in PrevOuts, alloc \in BOOLEAN :
        DoAgg("get1_octet_string_from_param", pi,
              [prev |-> prev, alloc |-> alloc],
              ossl_param_get1_octet_string_from_param(pi, prev, alloc))

Get1OctetString ==
    \E name \in {<<(<<107, 49>>)>>, <<(<<107, 50>>)>>, <<(<<107, 51>>)>>},
       prev \in PrevOuts, alloc \in BOOLEAN :
        DoAgg("get1_octet_string", 1,
              [name |-> name, prev |-> prev, alloc |-> alloc],
              ossl_param_get1_octet_string(1, name, prev, alloc))

Get1ConcatOctetString ==
    \E n \in 0 .. MaxParams, prev \in PrevOuts, alloc \in BOOLEAN :
        \E p \in [1 .. n -> {1, 2}] :
            DoAgg("get1_concat_octet_string", NULL,
                  [n |-> n, params |-> p, prev |-> prev, alloc |-> alloc],
                  ossl_param_get1_concat_octet_string(n, p, prev, alloc))

NextAgg ==
    Get1OctetStringFromParam \/ Get1OctetString \/ Get1ConcatOctetString

SpecAgg == InitAgg /\ [][NextAgg]_vars

-----------------------------------------------------------------------------
(* The same helpers called one after the other on one output location.     *)
(* The buffers the helpers allocated are numbered in the order of their    *)
(* allocation; the heap records how many times each was freed, and *out is *)
(* the number of a buffer or NULL.                                         *)

\* The allocations a behaviour makes at most
MaxAllocs == 3

Owned(id, out_len, heap) == [id |-> id, out_len |-> out_len, heap |-> heap]

\* *out, *out_len and the heap as the last call left them
Own == IF last.out = << >> THEN Owned(NULL, 0, << >>) ELSE last.out[1]

\* The heap after a call that allocated the buffers allocs and freed frees
HeapAfter(allocs, frees) ==
    LET grown == Own.heap \o [i \in 1 .. Len(allocs) |-> 0]
        new   == Len(Own.heap) + 1
        Times(who) == Cardinality({ i \in 1 .. Len(frees) : frees[i] = who })
    IN  [b \in 1 .. Len(grown) |->
            grown[b] + (IF b = Own.id THEN Times("prev") ELSE 0)
                     + (IF b = new THEN Times("new") ELSE 0)]

\* A call of a helper on the output location, r what the helper did
DoOwn(op, p, arg, r) ==
    /\ Len(Own.heap) < MaxAllocs
    /\ last' = [op |-> op, p |-> p, arg |-> arg, ret |-> r.ret,
                errs |-> r.errs,
                out |-> <<Owned(IF r.out[1].out.ptr = "null" THEN NULL
                                ELSE IF r.out[1].out.ptr = "prev" THEN Own.id
                                ELSE Len(Own.heap) + 1,
                                r.out[1].out_len,
                                HeapAfter(r.out[1].allocs, r.out[1].frees))>>,
                fault |-> FALSE]
    /\ UNCHANGED <<IS_BIG_ENDIAN, params, mem>>

\* *out and *out_len as a helper is given them
OwnPrev ==
    [out |-> IF Own.id = NULL THEN NullPtr ELSE Ptr("prev", << >>),
     out_len |-> Own.out_len]

\* The descriptors of an array: (data_type, data_size, data present)
OwnDescs ==
    { <<OSSL_PARAM_OCTET_STRING, MaxLen, TRUE>>,
      <<OSSL_PARAM_OCTET_STRING, 0, TRUE>>,
      <<OSSL_PARAM_OCTET_STRING, MaxLen, FALSE>>,
      <<OSSL_PARAM_UTF8_STRING, MaxLen, TRUE>> }

InitOwn ==
    /\ IS_BIG_ENDIAN = FALSE
    /\ \E d1 \in OwnDescs, d2 \in OwnDescs :
         /\ params = << AggEntry(1, d1), AggEntry(2, d2), OSSL_PARAM_END >>
         /\ mem = << AggBytes(1, d1), AggBytes(2, d2), << >> >>
    /\ last = NoCall

OwnGet1OctetStringFromParam ==
    \E pi \in {NULL, 1, 2}, alloc \in BOOLEAN :
        DoOwn("get1_octet_string_from_param", pi, [alloc |-> alloc],
              ossl_param_get1_octet_string_from_param(pi, OwnPrev, alloc))

OwnGet1ConcatOctetString ==
    \E n \in 0 .. 2, alloc \in BOOLEAN :
        \E p \in [1 .. n -> {1, 2}] :
            DoOwn("get1_concat_octet_string", NULL,
                  [n |-> n, params |-> p, alloc |-> alloc],
                  ossl_param_get1_concat_octet_string(n, p, OwnPrev, alloc))

NextOwn == OwnGet1OctetStringFromParam \/ OwnGet1ConcatOctetString

SpecOwn == InitOwn /\ [][NextOwn]_vars

-----------------------------------------------------------------------------
(* The conversion engine on its own: a behaviour is one call, which copies *)
(* a source of src_len bytes into a fresh destination of dest_len bytes.   *)

InitCopy ==
    /\ IS_BIG_ENDIAN \in BOOLEAN
    /\ params = << >>
    /\ mem = << >>
    /\ last = NoCall

CopyArg(dest_len, src, pad, signed_int) ==
    [dest_len |-> dest_len, src |-> src, src_len |-> Len(src), pad |-> pad,
     signed_int |-> signed_int]

CopyInteger ==
    \E dest_len \in Widths, src_len \in Widths, v \in Values64,
       pad \in {0, 255}, signed_int \in {0, 1} :
        LET src == Native(Truncate(v, src_len))
            r   == copy_integer(Untouched(dest_len), dest_len, src, src_len,
                                pad, signed_int)
        IN  /\ last = NoCall
            /\ last' = Called("copy_integer", 0,
                              CopyArg(dest_len, src, pad, signed_int),
                              r.ret, r.errs, r.dest)
            /\ UNCHANGED <<IS_BIG_ENDIAN, params, mem>>

SignedFromSigned ==
    \E dest_len \in Widths, src_len \in Widths, v \in Values64 :
        LET src == Native(Truncate(v, src_len))
            r   == signed_from_signed(Untouched(dest_len), dest_len, src, src_len)
        IN  /\ last = NoCall
            /\ last' = Called("signed_from_signed", 0,
                              CopyArg(dest_len, src, 0, 1), r.ret, r.errs, r.dest)
            /\ UNCHANGED <<IS_BIG_ENDIAN, params, mem>>

SignedFromUnsigned ==
    \E dest_len \in Widths, src_len \in Widths, v \in Values64 :
        LET src == Native(Truncate(v, src_len))
            r   == signed_from_unsigned(Untouched(dest_len), dest_len, src, src_len)
        IN  /\ last = NoCall
            /\ last' = Called("signed_from_unsigned", 0,
                              CopyArg(dest_len, src, 0, 1), r.ret, r.errs, r.dest)
            /\ UNCHANGED <<IS_BIG_ENDIAN, params, mem>>

UnsignedFromSigned ==
    \E dest_len \in Widths, src_len \in Widths, v \in Values64 :
        LET src == Native(Truncate(v, src_len))
            r   == unsigned_from_signed(Untouched(dest_len), dest_len, src, src_len)
        IN  /\ last = NoCall
            /\ last' = Called("unsigned_from_signed", 0,
                              CopyArg(dest_len, src, 0, 0), r.ret, r.errs, r.dest)
            /\ UNCHANGED <<IS_BIG_ENDIAN, params, mem>>

UnsignedFromUnsigned ==
    \E dest_len \in Widths, src_len \in Widths, v \in Values64 :
        LET src == Native(Truncate(v, src_len))
            r   == unsigned_from_unsigned(Untouched(dest_len), dest_len, src, src_len)
        IN  /\ last = NoCall
            /\ last' = Called("unsigned_from_unsigned", 0,
                              CopyArg(dest_len, src, 0, 0), r.ret, r.errs, r.dest)
            /\ UNCHANGED <<IS_BIG_ENDIAN, params, mem>>

NextCopy ==
    \/ CopyInteger
    \/ SignedFromSigned
    \/ SignedFromUnsigned
    \/ UnsignedFromSigned
    \/ UnsignedFromUnsigned

SpecCopy == InitCopy /\ [][NextCopy]_vars

-----------------------------------------------------------------------------
(* C9 *)

\* The source of the last copy as a number, whatever the byte order.
CopySource == Native(last.arg.src)

\* An 8-byte source read as signed lies outside [-2^31, 2^31 - 1].
SignedOutsideInt32(v) == SLess(v, INT32_MIN) \/ SLess(INT32_MAX, v)
\* An 8-byte source read as unsigned lies above 2^31 - 1.
UnsignedOutsideInt32(v) == ULess(INT32_MAX, v)

ShorteningTo32 == last.arg.src_len = 8 /\ last.arg.dest_len = 4

Rejected32 ==
    /\ last.ret = 0
    /\ last.errs = <<err_out_of_range>>
    /\ last.out = Untouched(4)

\* C9: copy_integer in signed mode, signed_from_signed and signed_from_unsigned,
\* from an 8-byte source into a 4-byte destination, fail with ValueTooLarge
\* whenever the source value is outside [-2^31, 2^31 - 1] (the source read as
\* signed, or as unsigned where the conversion takes an unsigned source), and
\* then no byte of the destination has been written.
C9_TruncationRejected ==
    /\ (/\ last.op \in {"copy_integer", "signed_from_signed"}
        /\ last.arg.signed_int = 1
        /\ ShorteningTo32
        /\ SignedOutsideInt32(CopySource))
       => Rejected32
    /\ (/\ \/ last.op = "signed_from_unsigned"
           \/ (last.op = "copy_integer" /\ last.arg.signed_int = 1
               /\ last.arg.pad = 0)
        /\ ShorteningTo32
        /\ UnsignedOutsideInt32(CopySource))
       => Rejected32

\* A value one past INT32_MAX was offered to a signed 4-byte destination.
C9_Witness ==
    /\ last.op = "signed_from_unsigned"
    /\ ShorteningTo32
    /\ CopySource = Pow31
    /\ last.ret = 0

-----------------------------------------------------------------------------
(* Round trip of the fixed-width accessors *)

FixedSetOps == {"set_int32", "set_uint32", "set_int64", "set_uint64"}

MatchingGet(op) ==
    IF op = "set_int32" THEN "get_int32"
    ELSE IF op = "set_uint32" THEN "get_uint32"
    ELSE IF op = "set_int64" THEN "get_int64"
    ELSE "get_uint64"

\* The descriptor is an INTEGER or UNSIGNED_INTEGER of 4 or 8 bytes
FixedInteger ==
    /\ params[1].data_type \in {OSSL_PARAM_INTEGER, OSSL_PARAM_UNSIGNED_INTEGER}
    /\ params[1].data_size \in {SizeofInt32, SizeofInt64}

\* This step is the matching get, with an output argument, after a
\* successful fixed-width set on such a descriptor
SetThenGet ==
    /\ last.op \in FixedSetOps /\ last.p # NULL /\ last.ret = 1
    /\ FixedInteger
    /\ last'.op = MatchingGet(last.op) /\ last'.p = last.p
    /\ last'.arg.val # NULL

\* C1, as stated: on an INTEGER or UNSIGNED_INTEGER descriptor of 4 or 8
\* bytes, the matching fixed-width get after a successful fixed-width set of
\* v succeeds and returns v.  A set on a descriptor without data succeeds
\* too (it is a size query), and the get after it fails.
C1_RoundTripAnyData ==
    [][SetThenGet => (last'.ret = 1 /\ last'.out = <<last.arg.val>>)]_vars

\* C1, amended: on an INTEGER or UNSIGNED_INTEGER descriptor of 4 or 8 bytes
\* whose data is present, the matching fixed-width get after a successful
\* fixed-width set of v succeeds and returns exactly v.
C1_RoundTrip ==
    [][(SetThenGet /\ params[1].data # NULL)
           => (last'.ret = 1 /\ last'.out = <<last.arg.val>>)]_vars

\* INT32_MIN, stored by set_int64 into a 4-byte INTEGER, is read back by
\* get_int64
C1_Witness ==
    /\ last.op = "get_int64" /\ last.ret = 1 /\ last.out = <<INT32_MIN>>
    /\ params[1].data_type = OSSL_PARAM_INTEGER
    /\ params[1].data_size = SizeofInt32
    /\ params[1].return_size = SizeofInt32
    /\ mem[1] = StoreNum(Truncate(INT32_MIN, 4))

-----------------------------------------------------------------------------
(* The setters, by what they take and what they can store into *)

SignedSetOps   == {"set_int32", "set_int64", "set_int", "set_long", "set_time_t"}
UnsignedSetOps == {"set_uint32", "set_uint64", "set_uint", "set_ulong",
                   "set_size_t"}
IntegerSetOps  == SignedSetOps \cup UnsignedSetOps
SetOps ==
    IntegerSetOps \cup
    { "set_double", "set_BN", "set_utf8_string", "set_octet_string",
      "set_utf8_ptr", "set_octet_ptr", "set_octet_string_or_ptr" }

IntegerTypes == {OSSL_PARAM_INTEGER, OSSL_PARAM_UNSIGNED_INTEGER}
NumericTypes == IntegerTypes \cup {OSSL_PARAM_REAL}
StringTypes  == {OSSL_PARAM_UTF8_STRING, OSSL_PARAM_OCTET_STRING,
                 OSSL_PARAM_UTF8_PTR, OSSL_PARAM_OCTET_PTR}

\* The last call was the setter op on the descriptor
SetCalled == last.op \in SetOps /\ last.p # NULL

\* The last call handed over a value that a descriptor of this type can
\* hold: the type is one the setter stores into, the value is there, and it
\* is not a negative or fractional one for an integer that cannot have it
Storable(type) ==
    IF last.op \in SignedSetOps
    THEN type \in NumericTypes
         /\ (type = OSSL_PARAM_UNSIGNED_INTEGER => ~SignBit(last.arg.val))
    ELSE IF last.op \in UnsignedSetOps THEN type \in NumericTypes
    ELSE IF last.op = "set_double"
    THEN \/ type = OSSL_PARAM_REAL
         \/ /\ type \in IntegerTypes
            /\ ~last.arg.val.frac
            /\ (type = OSSL_PARAM_UNSIGNED_INTEGER => DoubleNonNeg(last.arg.val))
    ELSE IF last.op = "set_BN"
    THEN /\ last.arg.val # << >>
         /\ type \in IntegerTypes
         /\ (type = OSSL_PARAM_UNSIGNED_INTEGER => ~last.arg.val[1].neg)
    ELSE IF last.op = "set_utf8_string"
    THEN last.arg.val # << >> /\ type = OSSL_PARAM_UTF8_STRING
    ELSE IF last.op = "set_octet_string"
    THEN last.arg.val # << >> /\ type = OSSL_PARAM_OCTET_STRING
    ELSE IF last.op = "set_utf8_ptr" THEN type = OSSL_PARAM_UTF8_PTR
    ELSE IF last.op = "set_octet_ptr" THEN type = OSSL_PARAM_OCTET_PTR
    ELSE \/ type = OSSL_PARAM_OCTET_STRING /\ last.arg.val # NULL
         \/ type = OSSL_PARAM_OCTET_PTR

\* The bytes a big number needs in a descriptor of the given type
BNBytes(b, type) ==
    IF type = OSSL_PARAM_INTEGER THEN Len(b.mag) + 1
    ELSE IF Len(b.mag) = 0 THEN 1 ELSE Len(b.mag)

\* The bytes the value of the last call needs in a descriptor of the type
Needed(type) ==
    IF last.op \in IntegerSetOps
    THEN IF type = OSSL_PARAM_REAL THEN SizeofDouble ELSE Len(last.arg.val)
    ELSE IF last.op = "set_double" THEN SizeofDouble
    ELSE IF last.op = "set_BN" THEN BNBytes(last.arg.val[1], type)
    ELSE IF last.op \in {"set_utf8_string", "set_octet_string"}
    THEN Len(last.arg.val[1])
    ELSE IF last.op = "set_utf8_ptr"
    THEN IF last.arg.val = NULL THEN 0 ELSE Len(Referent(last.arg.val))
    ELSE last.arg.len

-----------------------------------------------------------------------------
\* C2: a signed setter given a negative value for an UNSIGNED_INTEGER
\* descriptor fails, and the one error it raises is the negative-unsigned
\* one, whatever data_size is and whether or not data is present.
C2_NegativeIntoUnsigned ==
    (/\ last.op \in SignedSetOps /\ last.p # NULL
     /\ params[1].data_type = OSSL_PARAM_UNSIGNED_INTEGER
     /\ SignBit(last.arg.val))
        => (last.ret = 0 /\ last.errs = <<err_unsigned_negative>>)

\* C3: set_int64 and set_uint64 on a REAL descriptor with an 8-byte buffer
\* succeed exactly when the magnitude of the value is at most 2^53, then
\* storing the value as it is, and fail with the inexact error otherwise.
C3_PrecisionBoundary ==
    (/\ last.op \in {"set_int64", "set_uint64"} /\ last.p # NULL
     /\ params[1].data_type = OSSL_PARAM_REAL
     /\ params[1].data_size = SizeofDouble
     /\ params[1].data # NULL
     /\ ~last.fault)
        => LET v   == last.arg.val
               mag == IF last.op = "set_int64" THEN Abs64(v) ELSE v
           IN  IF ULeq(mag, Pow53)
               THEN /\ last.ret = 1
                    /\ mem[1] = (IF last.op = "set_int64"
                                 THEN DoubleFromSigned(v)
                                 ELSE DoubleFromUnsigned(v))
               ELSE last.ret = 0 /\ last.errs = <<err_inexact>>

\* C4: a setter called on a descriptor of a type it can store into, whose
\* data is absent, is a size query: it succeeds, writes through no
\* reference, changes nothing of the descriptor but return_size, and leaves
\* in return_size the number of bytes the value needs.
C4_SizeQuery ==
    [][(/\ SetCalled' /\ params[1].data = NULL
        /\ Storable(params[1].data_type)')
           => /\ last'.ret = 1 /\ ~last'.fault
              /\ mem' = mem
              /\ params' = [params EXCEPT ![1].return_size =
                                              Needed(params[1].data_type)']
      ]_vars

\* C5: after a setter called on a descriptor, with a value the descriptor's
\* type can hold, return_size is the number of bytes the value needs (or, the
\* value stored, the width it was stored in), whether the call succeeded or
\* failed; a fixed-width set that fails for want of room leaves the width
\* needed there, not 0.
C5_ReturnSizeOnEveryPath ==
    (SetCalled /\ Storable(params[1].data_type) /\ ~last.fault)
        => \/ params[1].return_size = Needed(params[1].data_type)
           \/ /\ last.ret = 1 /\ params[1].data # NULL
              /\ params[1].return_size = params[1].data_size

\* The types a getter converts from
Gettable(type) ==
    IF last.op \in {"get_utf8_string", "get_utf8_string_ptr"}
    THEN type = OSSL_PARAM_UTF8_STRING
    ELSE IF last.op \in {"get_octet_string", "get_octet_string_ptr"}
    THEN type = OSSL_PARAM_OCTET_STRING
    ELSE IF last.op = "get_utf8_ptr" THEN type = OSSL_PARAM_UTF8_PTR
    ELSE IF last.op = "get_octet_ptr" THEN type = OSSL_PARAM_OCTET_PTR
    ELSE IF last.op = "get_BN" THEN type \in IntegerTypes
    ELSE type \in NumericTypes

\* C6: an accessor called without a descriptor, and a getter called on a
\* descriptor of its type whose data is absent, fails with the null-argument
\* error and has read through no absent reference.
C6_NullArgument ==
    (\/ last.op \in SetOps \cup GetOps /\ last.p = NULL
     \/ /\ last.op \in GetOps /\ last.p # NULL
        /\ params[1].data = NULL
        /\ Gettable(params[1].data_type))
        => (last.ret = 0 /\ last.errs = <<err_null_argument>> /\ ~last.fault)

\* The accessors of numbers and of big numbers, and those of strings
NumberOps ==
    IntegerSetOps \cup {"set_double", "set_BN"} \cup
    { "get_int32", "get_uint32", "get_int64", "get_uint64", "get_int",
      "get_uint", "get_long", "get_ulong", "get_size_t", "get_time_t",
      "get_double", "get_BN" }
StringOps ==
    { "set_utf8_string", "set_octet_string", "get_utf8_string",
      "get_octet_string" }

\* The output argument of the getter, the value of the setter, is there
ArgPresent ==
    IF last.op \in {"get_utf8_string", "get_octet_string"}
    THEN last.arg.val # "none"
    ELSE IF last.op \in GetOps THEN last.arg.val # NULL
    ELSE IF last.op \in {"set_BN", "set_utf8_string", "set_octet_string"}
    THEN last.arg.val # << >>
    ELSE TRUE

\* C7: an accessor of numbers called on a descriptor of a string or pointer
\* type, and an accessor of strings called on a descriptor of a numeric type,
\* fails with the incompatible-type error alone, whether the descriptor's
\* data is present or not and whatever its data_size.
C7_IncompatibleType ==
    (/\ last.p # NULL
     /\ \/ last.op \in NumberOps /\ params[1].data_type \in StringTypes
        \/ last.op \in StringOps /\ params[1].data_type \in NumericTypes
     /\ ArgPresent)
        => (last.ret = 0 /\ last.errs = <<err_bad_type>>)

-----------------------------------------------------------------------------
(* Storing into a buffer that is too small *)

\* C8: set_utf8_string, set_octet_string and set_BN, called with a value the
\* descriptor's type can hold on a descriptor whose data is present and whose
\* data_size is below what the value needs, fail with the too-small error
\* alone, write nothing into the buffer and leave the size needed (the
\* length of the string, the number of octets, the bytes of the big number)
\* in return_size.
C8_BufferTooSmall ==
    [][(/\ last'.op \in {"set_utf8_string", "set_octet_string", "set_BN"}
        /\ last'.p # NULL
        /\ Storable(params[1].data_type)'
        /\ params[1].data # NULL
        /\ params[1].data_size < Needed(params[1].data_type)')
           => /\ last'.ret = 0 /\ last'.errs = <<err_too_small>>
              /\ mem' = mem
              /\ params'[1].return_size = Needed(params[1].data_type)'
      ]_vars

\* A string of two characters does not go into a buffer of one byte
C8_Witness ==
    /\ last.op = "set_utf8_string" /\ last.arg.val = <<(<<97, 98>>)>>
    /\ params[1].data_type = OSSL_PARAM_UTF8_STRING
    /\ params[1].data # NULL /\ params[1].data_size = 1
    /\ last.ret = 0 /\ last.errs = <<err_too_small>>
    /\ mem[1] = Untouched(1)
    /\ params[1].return_size = 2

-----------------------------------------------------------------------------
(* Lookup *)

\* The entry that ends the array
Terminator == CHOOSE i \in 1 .. Len(params) :
                  /\ params[i].key = << >>
                  /\ \A j \in 1 .. i - 1 : params[j].key # << >>

\* The entries of the array that have the key looked up
Matches == { i \in 1 .. Terminator - 1 : params[i].key = last.arg.key }

\* C10: a lookup returns the first entry of the array whose key is the key
\* looked up, character for character, whatever entries follow it; it
\* returns none when it is given no array or no key or when no entry before
\* the one that ends the array has the key; it compares the key of no entry
\* at or behind the one that ends the array, and reads nothing behind it.
C10_LocateFirst ==
    last.op \in {"locate", "locate_const"}
        => /\ IF last.p = NULL \/ last.arg.key = << >> \/ Matches = {}
              THEN last.ret = NULL
              ELSE last.ret \in Matches
                   /\ \A i \in Matches : last.ret <= i
           /\ \A i \in last.out[1].compared : i < Terminator
           /\ \A i \in last.out[1].read : i <= Terminator

\* Two entries have the key "k", one more behind the end of the array has
\* it, an entry before them has the key "K": the lookup returns the second
C10_Witness ==
    /\ last.op = "locate" /\ last.arg.key = <<(<<107>>)>>
    /\ Len(params) = 4
    /\ params[1].key = <<(<<75>>)>>
    /\ params[2].key = last.arg.key
    /\ params[3].key = << >>
    /\ params[4].key = last.arg.key
    /\ last.ret = 2

-----------------------------------------------------------------------------
(* Reset and modification *)

\* C11: OSSL_PARAM_set_all_unmodified on an array, after whatever setters
\* were called on its entries, leaves return_size of every entry before the
\* one that ends the array at OSSL_PARAM_UNMODIFIED, so that
\* OSSL_PARAM_modified is false for each, and changes nothing else: not the
\* key, data_type, data or data_size of an entry, not the entry that ends
\* the array or what lies behind it, and no buffer.
C11_AllUnmodified ==
    [][(last'.op = "set_all_unmodified" /\ last'.p # NULL)
          => /\ \A i \in 1 .. Len(params) :
                   IF i < Terminator
                   THEN /\ params'[i] =
                             [params[i] EXCEPT
                                  !.return_size = OSSL_PARAM_UNMODIFIED]
                        /\ ~OSSL_PARAM_modified(i)'
                   ELSE params'[i] = params[i]
             /\ Len(params') = Len(params)
             /\ mem' = mem
      ]_vars

\* The array is reset after set_int32 stored 1 into its first entry and
\* set_utf8_string "a" into its second
C11_Witness ==
    /\ last.op = "set_all_unmodified" /\ last.p # NULL
    /\ params[1].data_type = OSSL_PARAM_INTEGER
    /\ mem[1] = StoreNum(Truncate(One64, 4))
    /\ params[2].data_type = OSSL_PARAM_UTF8_STRING
    /\ mem[2] = <<97>>
    /\ params[1].return_size = OSSL_PARAM_UNMODIFIED
    /\ params[2].return_size = OSSL_PARAM_UNMODIFIED
    /\ params[4].return_size = 0

\* C12: from an array that was reset, OSSL_PARAM_modified of an entry is
\* true exactly when a setter called on that entry succeeded: a call of a
\* setter on an entry makes it true when it succeeds and leaves it as it
\* was, false in particular, when it fails.
C12_ModifiedIffSucceeded ==
    [][\A pi \in SeqDescriptors :
          (last'.op \in SetOps /\ last'.p = pi)
              => (OSSL_PARAM_modified(pi)'
                      <=> (OSSL_PARAM_modified(pi) \/ last'.ret = 1))
      ]_vars

-----------------------------------------------------------------------------
(* Failing calls *)

\* C13: a setter that returns failure leaves the descriptor's buffer with
\* every byte it had before the call: no failing call writes a part of the
\* new value (nor, in this code, the whole of it).
C13_NoPartialWrite ==
    [][(last'.op \in SetOps /\ last'.p # NULL /\ last'.ret = 0 /\ ~last'.fault)
          => mem' = mem
      ]_vars

\* set_int64 of 2^31 fails on a signed integer of two bytes, which goes
\* through copy_integer, and the two bytes are as they were
C13_Witness ==
    /\ last.op = "set_int64" /\ last.arg.val = Pow31
    /\ params[1].data_type = OSSL_PARAM_INTEGER
    /\ params[1].data # NULL /\ params[1].data_size = 2
    /\ last.ret = 0 /\ last.errs = <<err_out_of_range>>
    /\ mem[1] = Untouched(2)

\* The last call failed because memory could not be allocated: the error of
\* that failure, if any, is raised by the allocator
FailedAllocation ==
    /\ last.op \in {"get_utf8_string", "get_octet_string"}
    /\ last.arg.val = "alloc" /\ ~last.arg.alloc

\* C14: every call of an accessor that returns failure has raised exactly
\* one error (a failure of the allocator aside, whose error is not raised
\* here).
C14_OneErrorPerFailure ==
    (last.op # "none" /\ last.ret = 0 /\ ~last.fault /\ ~FailedAllocation)
        => Len(last.errs) = 1

-----------------------------------------------------------------------------
(* Reading a string into a buffer of the caller *)

\* The descriptor's buffer holds no zero byte
NoEmbeddedNul == \A i \in 1 .. Len(mem[1]) : mem[1][i] # 0

\* C15: get_utf8_string on a UTF-8 string descriptor whose data_size bytes
\* hold no zero byte, reading into a buffer of the caller: with a capacity of
\* data_size + 1 the call succeeds, the first data_size bytes of the buffer
\* are the descriptor's and the byte after them is zero; with a capacity of
\* data_size the call fails with the no-space-for-the-terminator error.
C15_TerminatorSpace ==
    (/\ last.op = "get_utf8_string" /\ last.p # NULL
     /\ params[1].data_type = OSSL_PARAM_UTF8_STRING
     /\ params[1].data # NULL
     /\ last.arg.val = "buf"
     /\ NoEmbeddedNul)
        => LET L == params[1].data_size
           IN  /\ last.arg.max_len = L + 1
                    => /\ last.ret = 1 /\ last.errs = << >>
                       /\ SubSeq(last.out[1].dst, 1, L) = mem[1]
                       /\ last.out[1].dst[L + 1] = 0
               /\ last.arg.max_len = L
                    => /\ last.ret = 0
                       /\ last.errs = <<CRYPTO_R_NO_SPACE_FOR_TERMINATING_NULL>>

\* "ab", stored into a descriptor of two bytes, is read into three bytes
C15_Witness ==
    /\ last.op = "get_utf8_string" /\ last.arg.val = "buf"
    /\ last.arg.max_len = 3
    /\ params[1].data_type = OSSL_PARAM_UTF8_STRING
    /\ params[1].data_size = 2 /\ mem[1] = <<97, 98>>
    /\ last.ret = 1 /\ last.out[1].dst = <<97, 98, 0>>

-----------------------------------------------------------------------------
(* Big numbers *)

\* C16: a big number that is not negative, stored by set_BN into an unsigned
\* integer descriptor large enough for it, or a negative one stored into a
\* signed integer descriptor large enough, is read back by get_BN with the
\* same sign and the same magnitude; set_BN of a negative big number into an
\* unsigned integer descriptor fails.
C16_BNRoundTrip ==
    [][/\ (/\ last.op = "set_BN" /\ last.p # NULL /\ last.ret = 1
           /\ params[1].data # NULL
           /\ \/ /\ params[1].data_type = OSSL_PARAM_UNSIGNED_INTEGER
                 /\ ~last.arg.val[1].neg
              \/ /\ params[1].data_type = OSSL_PARAM_INTEGER
                 /\ last.arg.val[1].neg
           /\ last'.op = "get_BN" /\ last'.p # NULL
           /\ last'.arg.val # NULL /\ last'.arg.alloc)
              => /\ last'.ret = 1
                 /\ last'.out = <<last.arg.val[1]>>
       /\ (/\ last'.op = "set_BN" /\ last'.p # NULL
           /\ last'.arg.val # << >>
           /\ params[1].data_type = OSSL_PARAM_UNSIGNED_INTEGER
           /\ last'.arg.val[1].neg)
              => last'.ret = 0
      ]_vars

\* -129, stored into a signed integer of two bytes, is read back
C16_Witness ==
    /\ last.op = "get_BN" /\ last.ret = 1
    /\ params[1].data_type = OSSL_PARAM_INTEGER /\ params[1].data_size = 2
    /\ mem[1] = Native(<<127, 255>>)
    /\ last.out = <<BigNum(TRUE, <<129>>)>>

\* C17: set_BN needs one byte more than the magnitude of the big number has
\* in a signed integer descriptor, and as many bytes as the magnitude has,
\* one at least, in an unsigned one.  With no buffer the call succeeds and
\* return_size is that number; with a buffer of at least as many bytes the
\* call succeeds and return_size is data_size; with a smaller buffer it
\* fails for lack of space.
C17_BNSize ==
    (/\ last.op = "set_BN" /\ last.p # NULL /\ last.arg.val # << >>
     /\ params[1].data_type \in IntegerTypes
     /\ (params[1].data_type = OSSL_PARAM_UNSIGNED_INTEGER
             => ~last.arg.val[1].neg))
        => LET need == BNBytes(last.arg.val[1], params[1].data_type)
           IN  IF params[1].data = NULL
               THEN last.ret = 1 /\ params[1].return_size = need
               ELSE IF params[1].data_size >= need
               THEN last.ret = 1
                    /\ params[1].return_size = params[1].data_size
               ELSE last.ret = 0 /\ last.errs = <<err_too_small>>

\* 256 needs three bytes in a signed integer: two are not enough
C17_Witness ==
    /\ last.op = "set_BN" /\ last.arg.val = <<BigNum(FALSE, <<0, 1>>)>>
    /\ params[1].data_type = OSSL_PARAM_INTEGER
    /\ params[1].data # NULL /\ params[1].data_size = 2
    /\ last.ret = 0 /\ last.errs = <<err_too_small>>
    /\ params[1].return_size = 3

-----------------------------------------------------------------------------
(* Buffers handed to the caller *)

\* What the last call left of *out and *out_len, and what it allocated and
\* freed
After == last.out[1]

\* The last call left *out and *out_len as they were, allocated nothing and
\* freed nothing
OutUntouched ==
    /\ After.out = last.arg.prev.out
    /\ After.out_len = last.arg.prev.out_len
    /\ After.frees = << >>

\* C18: ossl_param_get1_concat_octet_string called with no descriptor
\* (n = 0) returns success and leaves *out_len at 0, whatever *out and
\* *out_len were before the call.
C18_ConcatNone ==
    (last.op = "get1_concat_octet_string" /\ last.arg.n = 0)
        => (last.ret = 1 /\ After.out_len = 0)

\* Some descriptor of the list of the last call is not an octet string
WrongTyped ==
    \E i \in 1 .. last.arg.n :
        params[last.arg.params[i]].data_type # OSSL_PARAM_OCTET_STRING

\* C19: ossl_param_get1_concat_octet_string, given a list with a descriptor
\* that is not an octet string anywhere in it, returns failure, has
\* allocated nothing and freed nothing, and leaves *out and *out_len as they
\* were.
C19_ConcatWrongType ==
    (last.op = "get1_concat_octet_string" /\ WrongTyped)
        => (last.ret = 0 /\ OutUntouched /\ After.allocs = << >>)

\* The second of three descriptors is a string of two bytes that is not an
\* octet string, behind an octet string of two bytes, and the caller holds a
\* buffer of an earlier call
C19_Witness ==
    /\ last.op = "get1_concat_octet_string"
    /\ last.arg.n = 3 /\ last.arg.params = <<1, 2, 1>>
    /\ last.arg.alloc
    /\ params[1].data_type = OSSL_PARAM_OCTET_STRING
    /\ params[1].data # NULL /\ params[1].data_size = 2
    /\ params[2].data_type = OSSL_PARAM_UTF8_STRING
    /\ params[2].data # NULL /\ params[2].data_size = 2
    /\ last.arg.prev.out.ptr = "prev"
    /\ last.ret = 0 /\ After.out.ptr = "prev" /\ After.out_len = 2

\* The last call is one of the two that copy one octet string
Get1Called ==
    last.op \in {"get1_octet_string_from_param", "get1_octet_string"}

\* The descriptor the last call was about (NULL when there is none)
Get1Param ==
    IF last.op = "get1_octet_string"
    THEN OSSL_PARAM_locate_const(1, last.arg.name).found
    ELSE last.p

-----------------------------------------------------------------------------
(* References *)

PtrSetOps == {"set_utf8_ptr", "set_octet_ptr"}

\* The get that reads what a set of a reference stored
MatchingPtrGet(op) ==
    IF op = "set_utf8_ptr" THEN "get_utf8_ptr" ELSE "get_octet_ptr"

\* C21: a successful set_utf8_ptr or set_octet_ptr of a reference on a
\* descriptor whose data is present stores that reference, and nothing
\* else, in the slot data points to and leaves in return_size the length
\* supplied (the length of the string, 0 for a NULL reference, for
\* set_utf8_ptr); the get_utf8_ptr or get_octet_ptr that follows on the same
\* descriptor succeeds, hands back the same reference and writes nothing.
C21_PtrRoundTrip ==
    [][/\ (/\ last'.op \in PtrSetOps /\ last'.p # NULL /\ last'.ret = 1
           /\ params[1].data # NULL)
              => /\ mem' = <<last'.arg.val>>
                 /\ params'[1].return_size =
                        IF last'.op = "set_octet_ptr" THEN last'.arg.len
                        ELSE IF last'.arg.val = NULL THEN 0
                        ELSE strlen(Referent(last'.arg.val))
       /\ (/\ last.op \in PtrSetOps /\ last.p # NULL /\ last.ret = 1
           /\ params[1].data # NULL
           /\ last'.op = MatchingPtrGet(last.op) /\ last'.p # NULL
           /\ last'.arg.val # NULL)
              => /\ last'.ret = 1
                 /\ last'.out[1].ptr = last.arg.val
                 /\ mem' = mem /\ params' = params
      ]_vars

\* The reference to "ab", stored by set_utf8_ptr, is read back
C21_Witness ==
    /\ last.op = "get_utf8_ptr" /\ last.ret = 1
    /\ params[1].data_type = OSSL_PARAM_UTF8_PTR /\ params[1].data # NULL
    /\ params[1].return_size = 2
    /\ mem = <<2>> /\ last.out[1].ptr = 2

-----------------------------------------------------------------------------
(* Reading an integer as another integer type *)

FixedGetOps == {"get_int32", "get_uint32", "get_int64", "get_uint64"}

\* The number the descriptor holds, read by its own signedness, in 64 bits
Stored64 ==
    IF params[1].data_type = OSSL_PARAM_INTEGER THEN SignExtend(Load(1), 8)
    ELSE ZeroExtend(Load(1), 8)

\* It is below zero / it is above INT64_MAX
StoredNegative ==
    params[1].data_type = OSSL_PARAM_INTEGER /\ SignBit(Load(1))
StoredHuge ==
    params[1].data_type = OSSL_PARAM_UNSIGNED_INTEGER /\ SignBit(Stored64)

\* The type the get named op reads has the number the descriptor holds
Representable(op) ==
    IF op = "get_int64" THEN ~StoredHuge
    ELSE IF op = "get_uint64" THEN ~StoredNegative
    ELSE IF op = "get_uint32"
    THEN ~StoredNegative /\ ULeq(Stored64, UINT32_MAX)
    ELSE IF params[1].data_type = OSSL_PARAM_INTEGER
    THEN SLeq(INT32_MIN, Stored64) /\ SLeq(Stored64, INT32_MAX)
    ELSE ULeq(Stored64, INT32_MAX)

\* The bytes of the type the get named op reads
GetWidth(op) ==
    IF op \in {"get_int32", "get_uint32"} THEN SizeofInt32 ELSE SizeofInt64

\* C22: get_int32, get_uint32, get_int64 and get_uint64 on an INTEGER or
\* UNSIGNED_INTEGER descriptor of 4 or 8 bytes succeed exactly when the
\* number stored, read by the descriptor's signedness, is one the type read
\* has, and then hand back that number; otherwise they fail, with the
\* negative-into-unsigned error when the number is negative and the type
\* read unsigned and with the too-large error in every other case, and
\* write nothing to the output.
C22_CrossTypeRead ==
    (/\ last.op \in FixedGetOps /\ last.p # NULL /\ last.arg.val # NULL
     /\ FixedInteger /\ params[1].data # NULL)
        => IF Representable(last.op)
           THEN /\ last.ret = 1 /\ last.errs = << >>
                /\ last.out = <<Truncate(Stored64, GetWidth(last.op))>>
           ELSE /\ last.ret = 0 /\ last.out = << >>
                /\ last.errs =
                     <<IF StoredNegative /\ last.op \in {"get_uint32", "get_uint64"}
                       THEN err_unsigned_negative
                       ELSE err_out_of_range>>

\* An 8-byte signed integer holding -1 is read as uint32
C22_Witness ==
    /\ last.op = "get_uint32" /\ last.arg.val # NULL
    /\ params[1].data_type = OSSL_PARAM_INTEGER
    /\ params[1].data # NULL /\ params[1].data_size = SizeofInt64
    /\ mem[1] = MinusOne64
    /\ last.ret = 0 /\ last.errs = <<err_unsigned_negative>>

-----------------------------------------------------------------------------
(* Widening *)

DerivedCopies ==
    {"signed_from_signed", "signed_from_unsigned", "unsigned_from_signed",
     "unsigned_from_unsigned"}

\* The source of the last copy has its top bit set
SourceTopBit == SignBit(CopySource)

\* The last call is one of the four conversions into a destination at least
\* as long as the source, the source not negative when a signed number goes
\* into an unsigned one
Widening ==
    /\ last.op \in DerivedCopies
    /\ last.arg.dest_len >= last.arg.src_len
    /\ last.op = "unsigned_from_signed" => ~SourceTopBit

\* The call succeeded and the destination is the source in its low-order
\* bytes with the pad byte (0xff for a negative signed source, else 0) in
\* every byte above
Extended ==
    /\ last.ret = 1 /\ last.errs = << >>
    /\ Native(last.out) =
           CopySource \o
           Rep(IF last.op = "signed_from_signed" /\ SourceTopBit THEN 255 ELSE 0,
               last.arg.dest_len - last.arg.src_len)

\* C23 as stated: each of the four conversions into a destination at least
\* as long as the source succeeds and extends the source with the pad byte,
\* destinations as long as the source included.
C23_WideningAlways == Widening => Extended

\* C23: each of the four conversions into a destination longer than the
\* source succeeds and extends the source with the pad byte; into a
\* destination as long as the source it succeeds with the source's bytes,
\* except that signed_from_unsigned of a source whose top bit is set fails
\* with the too-large error and writes nothing.
C23_Widening ==
    Widening
        => IF /\ last.op = "signed_from_unsigned"
              /\ last.arg.dest_len = last.arg.src_len
              /\ SourceTopBit
           THEN /\ last.ret = 0 /\ last.errs = <<err_out_of_range>>
                /\ last.out = Untouched(last.arg.dest_len)
           ELSE Extended

\* -1 in two bytes goes into four bytes
C23_Witness ==
    /\ last.op = "signed_from_signed"
    /\ last.arg.src_len = 2 /\ last.arg.dest_len = 4
    /\ CopySource = <<255, 255>>
    /\ last.ret = 1 /\ last.out = <<255, 255, 255, 255>>

-----------------------------------------------------------------------------
(* Concatenation *)

RECURSIVE Joined(_, _)
\* The bytes of the buffers of the descriptors p[i], p[i + 1], ... one after
\* the other; a descriptor without a buffer gives none
Joined(p, i) ==
    IF i > Len(p) THEN << >> ELSE Buf(p[i]) \o Joined(p, i + 1)

\* C24: ossl_param_get1_concat_octet_string on one descriptor or more, all
\* of them octet strings, the allocation succeeding, returns success with
\* *out a buffer allocated by the call, *out_len the sum of data_size over
\* the descriptors that have a buffer, and the buffer holding their bytes in
\* the order of the list.  One allocation is made, of *out_len bytes, which
\* is what the sizing pass counted; when that is 0, of one byte.
C24_Concat ==
    (/\ last.op = "get1_concat_octet_string" /\ last.arg.n >= 1
     /\ ~WrongTyped /\ last.arg.alloc)
        => LET all == Joined(last.arg.params, 1)
           IN  /\ last.ret = 1 /\ last.errs = << >>
               /\ After.out.ptr = "new"
               /\ After.out_len = Len(all)
               /\ After.frees = OPENSSL_clear_free(last.arg.prev.out)
               /\ IF Len(all) = 0
                  THEN After.allocs = <<1>> /\ Len(After.out.bytes) = 1
                  ELSE After.allocs = <<Len(all)>> /\ After.out.bytes = all

\* Two bytes, one byte and the two bytes again make five
C24_Witness ==
    /\ last.op = "get1_concat_octet_string"
    /\ last.arg.params = <<1, 2, 1>>
    /\ params[1].data_size = 2 /\ params[1].data # NULL
    /\ params[2].data_size = 1 /\ params[2].data # NULL
    /\ last.ret = 1
    /\ After.out.bytes = mem[1] \o mem[2] \o mem[1]
    /\ After.out_len = 5 /\ After.allocs = <<5>>

-----------------------------------------------------------------------------
(* Ownership of the buffers *)

\* C25: whatever calls of ossl_param_get1_octet_string_from_param and
\* ossl_param_get1_concat_octet_string were made on one output location,
\* every buffer they allocated is either the one *out holds, and was never
\* freed, or is not held by *out and was freed exactly once: none is
\* leaked, freed twice or held after it was freed.
C25_OwnedOrFreedOnce ==
    \A b \in 1 .. Len(Own.heap) :
        IF b = Own.id THEN Own.heap[b] = 0 ELSE Own.heap[b] = 1

\* The third buffer is held after the first two were freed, once each
C25_Witness ==
    /\ last.op = "get1_octet_string_from_param" /\ last.ret = 1
    /\ Own.id = 3 /\ Own.heap = <<1, 1, 0>>

-----------------------------------------------------------------------------
(* A 32-bit value into an 8-byte integer *)

\* C26: set_int32 and set_uint32 on an INTEGER or UNSIGNED_INTEGER
\* descriptor of 8 bytes whose data is present, given a value the
\* descriptor's signedness has (any value but a negative one into an
\* unsigned integer), succeed, write the value sign-extended (set_int32) or
\* zero-extended (set_uint32) over the 8 bytes, and leave return_size 8.
C26_WiderSlot ==
    (/\ last.op \in {"set_int32", "set_uint32"} /\ last.p # NULL
     /\ params[1].data_type \in IntegerTypes
     /\ params[1].data # NULL /\ params[1].data_size = SizeofInt64
     /\ (last.op = "set_int32"
         /\ params[1].data_type = OSSL_PARAM_UNSIGNED_INTEGER)
            => ~SignBit(last.arg.val))
        => /\ last.ret = 1 /\ last.errs = << >>
           /\ Load(1) = IF last.op = "set_int32"
                        THEN SignExtend(last.arg.val, 8)
                        ELSE ZeroExtend(last.arg.val, 8)
           /\ params[1].return_size = SizeofInt64

\* set_int32 of INT32_MIN fills the upper four bytes with 0xff
C26_Witness ==
    /\ last.op = "set_int32" /\ last.arg.val = Truncate(INT32_MIN, 4)
    /\ params[1].data_type = OSSL_PARAM_INTEGER
    /\ params[1].data # NULL /\ params[1].data_size = SizeofInt64
    /\ last.ret = 1 /\ Load(1) = INT32_MIN
    /\ params[1].return_size = 8

-----------------------------------------------------------------------------
(* What a call leaves alone *)

-----------------------------------------------------------------------------
(* The fast paths and the general path *)

\* What the general path does with the call op of the value val on the
\* first descriptor
GeneralPath(op, val) ==
    IF op = "get_int32" THEN general_get_int(1, SizeofInt32)
    ELSE IF op = "get_uint32" THEN general_get_uint(1, SizeofInt32)
    ELSE IF op = "get_int64" THEN general_get_int(1, SizeofInt64)
    ELSE IF op = "get_uint64" THEN general_get_uint(1, SizeofInt64)
    ELSE IF op = "set_int32" THEN general_set_int(1, val, SizeofInt32)
    ELSE IF op = "set_uint32" THEN general_set_uint(1, val, SizeofInt32)
    ELSE IF op = "set_int64" THEN general_set_int(1, val, SizeofInt64)
    ELSE general_set_uint(1, val, SizeofInt64)

\* C28: on an INTEGER or UNSIGNED_INTEGER descriptor of 4 or 8 bytes, a
\* fixed-width get with an output argument, or a fixed-width set of a value
\* the accessor hands to an integer path (any but a negative value into an
\* unsigned integer), does what the general path does on the same
\* descriptor and value: the same value returned, the same errors, the same
\* value read, the same bytes in the buffer and, when it succeeds, the same
\* return_size.
C28_FastPathAgrees ==
    [][(/\ last'.op \in FixedGetOps \cup FixedSetOps /\ last'.p # NULL
        /\ FixedInteger
        /\ last'.op \in FixedGetOps => last'.arg.val # NULL
        /\ (last'.op \in {"set_int32", "set_int64"}
            /\ params[1].data_type = OSSL_PARAM_UNSIGNED_INTEGER)
               => ~SignBit(last'.arg.val))
          => LET g == GeneralPath(last'.op, last'.arg.val)
             IN  /\ last'.ret = g.ret
                 /\ last'.errs = g.errs
                 /\ last'.out = g.out
                 /\ ~last'.fault
                 /\ mem' = IF params[1].data = NULL THEN mem ELSE <<g.data>>
                 /\ g.ret = 1 => params'[1].return_size = g.rs
      ]_vars

\* set_uint64 of 2^63 is too large for a signed integer of 8 bytes on both
\* paths
C28_Witness ==
    /\ last.op = "set_uint64" /\ last.arg.val = INT64_MIN
    /\ params[1].data_type = OSSL_PARAM_INTEGER
    /\ params[1].data # NULL /\ params[1].data_size = SizeofInt64
    /\ last.ret = 0 /\ last.errs = <<err_out_of_range>>
    /\ GeneralPath("set_uint64", INT64_MIN).errs = <<err_out_of_range>>

-----------------------------------------------------------------------------
(* The length a string getter reads *)

\* A successful get of the first descriptor into a destination: the bytes
\* of the destination after the first data_size
Beyond(o) == SubSeq(o.dst, params[1].data_size + 1, Len(o.dst))

\* C29: the string getters take the length from data_size and never from
\* return_size.  A get_octet_string that follows a successful
\* set_octet_string of fewer than data_size bytes copies data_size bytes of
\* the buffer and reports data_size as the used length; get_utf8_string
\* copies data_size bytes as well; and get_octet_string on an OCTET_STRING
\* descriptor reports data_size as the used length whenever the caller
\* passes used_len, also when the call then fails because data is absent or
\* the destination is too small.
C29_LengthFromDataSize ==
    [][/\ (/\ last.op = "set_octet_string" /\ last.ret = 1 /\ last.p = 1
           /\ params[1].data # NULL /\ last.arg.len < params[1].data_size
           /\ params[1].return_size = last.arg.len
           /\ last'.op = "get_octet_string" /\ last'.p = 1
           /\ last'.arg.val # "none" /\ last'.ret = 1)
             => LET o == last'.out[1]
                IN  /\ SubSeq(o.dst, 1, params[1].data_size) = Buf(1)
                    /\ Beyond(o) = Untouched(Len(o.dst) - params[1].data_size)
                    /\ last'.arg.used_len
                          => o.used = <<params[1].data_size>>
       /\ (/\ last'.op = "get_utf8_string" /\ last'.p = 1 /\ last'.ret = 1
           /\ last'.arg.val # "none")
             => SubSeq(last'.out[1].dst, 1, params[1].data_size) = Buf(1)
       /\ (/\ last'.op = "get_octet_string" /\ last'.p = 1
           /\ params[1].data_type = OSSL_PARAM_OCTET_STRING
           /\ last'.arg.used_len)
             => last'.out[1].used = <<params[1].data_size>>
      ]_vars

\* A get into a buffer of one byte after one byte was stored in a
\* descriptor of two: too small, and the used length is two
C29_Witness ==
    /\ last.op = "get_octet_string" /\ last.p = 1
    /\ params[1].data_size = 2 /\ params[1].return_size = 1
    /\ last.arg.val = "buf" /\ last.arg.max_len = 1 /\ last.arg.used_len
    /\ last.ret = 0 /\ last.errs = <<err_too_small>>
    /\ last.out[1].used = <<2>>

-----------------------------------------------------------------------------
(* A descriptor without content *)

\* The descriptor of the last call has no data or no bytes
Empty == params[last.p].data = NULL \/ params[last.p].data_size = 0

====
